---- MODULE Spec2Model ----
(***************************************************************************)
(* Model of the SpacetimeDB client of damsels-assets                       *)
(* (src/unnamed/part_000, class SpacetimeDBClient): the row decoder, the   *)
(* table mirror, the derived views and the connection manager.             *)
(***************************************************************************)
EXTENDS Integers, Sequences, FiniteSets, TLC

VARIABLES
    \* ---- table mirror and observers ----
    cache,              \* this.cache: table name -> Map (a function id -> row)
    categoriesLoaded,   \* this.categoriesLoaded
    registered,         \* the observer fields (onX) that hold a callback
    identity,           \* this.identity
    lastMsg,            \* the inbound message handled last (<<>>: none yet)
    calls,              \* the observer invocations made while handling lastMsg
    handled,            \* number of inbound messages handled
    \* ---- decoder harness (parseRow as a pure function) ----
    decIn,      \* the logical row being encoded: [table, field, form]
    decOut,     \* <<>> before decoding, else [pos, obj]: parseRow on both shapes
    \* ---- connection manager ----
    socks,                  \* the WebSocket objects still alive: id -> readyState
    ws,                     \* this.ws: the id of a socket, 0 for null
    reconnectAttempts,      \* this.reconnectAttempts
    isReconnecting,         \* this.isReconnecting
    intentionalDisconnect,  \* this.intentionalDisconnect (undefined is FALSE)
    reconnectTimeoutId,     \* this.reconnectTimeoutId: a timer id, 0 for null/undefined
    timers,                 \* the pending setTimeout timers: [id, delay]
    token,                  \* this.token
    storage,                \* localStorage: [identity, token]
    subscriptionCounter,    \* this.subscriptionCounter (undefined is 0)
    lastStep,               \* the handler run last: [op, calls, frames], the
                            \* observers it called and the Subscribe frames it sent
    scheduled,              \* reconnect timers scheduled since the last handshake
    userDisconnected,       \* disconnect() was called and connect() not since
    \* ---- reducer gateway ----
    rpc,                    \* the last callReducer call, << >> before the first:
                            \* the request sent, the response, how the call ended
    \* ---- derived views ----
    view,                   \* the derivation called last, << >> before the first:
                            \* [query, first, second], its result and the result
                            \* of calling it once more
    \* ---- suspended calls ----
    pending,                \* the reducer calls whose fetch has not resolved yet
    wait                    \* the call that polls the mirror or the socket,
                            \* << >> when there is none

mirrorVars == <<cache, categoriesLoaded, registered, identity, lastMsg, calls, handled>>
decodeVars == <<decIn, decOut>>
gatewayVars == <<rpc>>
viewVars == <<view>>
asyncVars == <<pending, wait>>
connVars == <<socks, ws, reconnectAttempts, isReconnecting, intentionalDisconnect,
              reconnectTimeoutId, timers, token, storage,
              subscriptionCounter, lastStep, scheduled, userDisconnected>>
vars == <<cache, categoriesLoaded, registered, identity, lastMsg, calls, handled,
          decIn, decOut, socks, ws, reconnectAttempts, isReconnecting,
          intentionalDisconnect, reconnectTimeoutId, timers, token,
          storage, subscriptionCounter, lastStep, scheduled, userDisconnected, rpc,
          view, pending, wait>>

-----------------------------------------------------------------------------
(* JavaScript values.  A value is a tagged tuple, so that values of        *)
(* different JavaScript types can be compared (=== is tuple equality).     *)

Undef == <<"undef">>
Null == <<"null">>
Num(n) == <<"num", n>>
Str(s) == <<"str", s>>
Bool(b) == <<"bool", b>>
\* an array; its elements are the sequence s
Arr(s) == <<"arr", s>>
\* a plain object; f maps each own key to its value
Obj(f) == <<"obj", f>>
\* a string whose text is the JSON serialisation of the value v
JsonText(v) == <<"json", v>>

EmptyObj == Obj([k \in {} |-> Undef])
EmptyArr == Arr(<< >>)

IsArray(v) == v[1] = "arr"
IsPlainObject(v) == v[1] = "obj"
IsNumber(v) == v[1] = "num"
IsString(v) == v[1] \in {"str", "json"}
IsNullish(v) == v[1] \in {"undef", "null"}

\* JavaScript truthiness
Truthy(v) ==
    CASE v[1] \in {"undef", "null"} -> FALSE
      [] v[1] = "num" -> v[2] # 0
      [] v[1] = "str" -> v[2] # ""
      [] v[1] = "bool" -> v[2]
      [] OTHER -> TRUE

\* property read obj.key / obj[key]: undefined when the key is absent
Get(v, key) ==
    IF IsPlainObject(v) /\ key \in DOMAIN v[2] THEN v[2][key] ELSE Undef

\* zero-based index read arr[i]: undefined when out of range
Idx(v, i) ==
    IF IsArray(v) /\ i >= 0 /\ i < Len(v[2]) THEN v[2][i + 1] ELSE Undef

\* a || b
OrElse(a, b) == IF Truthy(a) THEN a ELSE b

\* names[index] for a JavaScript number index: undefined unless 0 <= index < length
Lookup(names, index) ==
    IF IsNumber(index) /\ index[2] >= 0 /\ index[2] < Len(names)
    THEN Str(names[index[2] + 1]) ELSE Undef

\* Object.keys(v)[0]: the modelled variant objects hold at most one key
FirstKey(v) ==
    IF DOMAIN v[2] = {} THEN Undef ELSE Str(CHOOSE k \in DOMAIN v[2] : TRUE)

-----------------------------------------------------------------------------
(* The wire decoder: parseRow and its helpers.                             *)

\* mutant of unwrap: a 1-element array is not unwrapped
unwrap_NoSingleton(val) ==
    IF IsNullish(val) THEN val
    ELSE IF IsArray(val) /\ Len(val[2]) = 2 /\ IsNumber(Idx(val, 0))
            /\ Idx(val, 0) = Num(0) THEN Idx(val, 1)
    ELSE IF IsArray(val) /\ Len(val[2]) = 2 /\ IsNumber(Idx(val, 0))
            /\ Idx(val, 0) = Num(1) THEN Null
    ELSE IF IsPlainObject(val) /\ Truthy(Get(val, "__identity__"))
         THEN Get(val, "__identity__")
    ELSE IF IsPlainObject(val)
            /\ Get(val, "__timestamp_micros_since_unix_epoch__") # Undef
         THEN Get(val, "__timestamp_micros_since_unix_epoch__")
    ELSE val

unwrap(val) ==
    IF IsNullish(val) THEN val
    ELSE IF IsArray(val) /\ Len(val[2]) = 2 /\ IsNumber(Idx(val, 0))
            /\ Idx(val, 0) = Num(0) THEN Idx(val, 1)
    ELSE IF IsArray(val) /\ Len(val[2]) = 2 /\ IsNumber(Idx(val, 0))
            /\ Idx(val, 0) = Num(1) THEN Null
    ELSE IF IsArray(val) /\ Len(val[2]) = 1 THEN Idx(val, 0)
    ELSE IF IsPlainObject(val) /\ Truthy(Get(val, "__identity__"))
         THEN Get(val, "__identity__")
    ELSE IF IsPlainObject(val)
            /\ Get(val, "__timestamp_micros_since_unix_epoch__") # Undef
         THEN Get(val, "__timestamp_micros_since_unix_epoch__")
    ELSE val

\* the shared shape of parseKind / parseActivityStatus / parseRoomActivityStatus
parseVariant(names, default, value) ==
    IF IsArray(value)
    THEN IF IsNumber(Idx(value, 0))
         THEN OrElse(Lookup(names, Idx(value, 0)), Str(default))
         ELSE Str(default)
    ELSE IF IsPlainObject(value) THEN OrElse(FirstKey(value), Str(default))
    ELSE OrElse(value, Str(default))

KindNames == <<"Skill", "Activity">>
ActivityStatusNames == <<"Locked", "Available", "Completed">>
RoomActivityStatusNames == <<"Viewing", "InProgress", "Completed", "Cancelled">>
RoleNames == <<"Top", "Bottom", "Observer", "Photographer">>

parseKind(kindValue) == parseVariant(KindNames, "Activity", kindValue)

parseActivityStatus(statusValue) ==
    parseVariant(ActivityStatusNames, "Available", statusValue)

parseRoomActivityStatus(statusValue) ==
    parseVariant(RoomActivityStatusNames, "Viewing", statusValue)

parseRole(roleValue) ==
    IF IsArray(roleValue)
    THEN IF IsNumber(Idx(roleValue, 0))
         THEN OrElse(Lookup(RoleNames, Idx(roleValue, 0)), Str("Observer"))
         ELSE Str("Observer")
    ELSE IF IsPlainObject(roleValue)
         THEN OrElse(FirstKey(roleValue), Str("Observer"))
    ELSE IF IsNumber(roleValue)
         THEN OrElse(Lookup(RoleNames, roleValue), Str("Observer"))
    ELSE OrElse(roleValue, Str("Observer"))

\* the tables of the client cache, in the order of the constructor
TableNames ==
    <<"user", "player", "room", "room_member", "room_invitation", "category",
      "activity", "player_activity", "player_unlocked_activity",
      "room_activity", "activity_participant", "player_not_wanted_activity",
      "user_category_preference", "player_category_preference">>

TableSet == {TableNames[i] : i \in 1..Len(TableNames)}

(* The two switch statements of parseRow, as one table.  Each field is     *)
(* <<canonical name, snake_case key, how the keyed-object branch decodes   *)
(* it, how the positional branch decodes it>>; the position in the list is *)
(* the index of the positional shape.                                      *)
SchemaOf(tableName) ==
    CASE tableName = "user" ->
           << <<"id", "id", "raw", "unwrap">>,
              <<"identity", "identity", "unwrap", "unwrap">>,
              <<"username", "username", "raw", "unwrap">>,
              <<"passwordHash", "password_hash", "raw", "unwrap">>,
              <<"role", "role", "raw", "raw">>,
              <<"createdAt", "created_at", "unwrap", "unwrap">>,
              <<"lastSeen", "last_seen", "unwrap", "unwrap">> >>
      [] tableName = "player" ->
           << <<"id", "id", "raw", "unwrap">>,
              <<"userId", "user_id", "raw", "unwrap">>,
              <<"username", "username", "raw", "unwrap">>,
              <<"xp", "xp", "raw", "unwrap">>,
              <<"createdAt", "created_at", "unwrap", "unwrap">> >>
      [] tableName = "room" ->
           << <<"id", "id", "raw", "unwrap">>,
              <<"code", "code", "raw", "unwrap">>,
              <<"name", "name", "raw", "unwrap">>,
              <<"ownerId", "owner_id", "raw", "unwrap">>,
              <<"isOpen", "is_open", "raw", "unwrap">>,
              <<"createdAt", "created_at", "unwrap", "unwrap">> >>
      [] tableName = "room_member" ->
           << <<"id", "id", "raw", "unwrap">>,
              <<"roomId", "room_id", "raw", "unwrap">>,
              <<"playerId", "player_id", "raw", "unwrap">>,
              <<"role", "role", "role", "role">>,
              <<"joinedAt", "joined_at", "unwrap", "unwrap">> >>
      [] tableName = "room_invitation" ->
           << <<"id", "id", "raw", "unwrap">>,
              <<"roomId", "room_id", "raw", "unwrap">>,
              <<"token", "token", "raw", "unwrap">>,
              <<"createdBy", "created_by", "raw", "unwrap">>,
              <<"forUsername", "for_username", "raw", "unwrap">>,
              <<"status", "status", "raw", "raw">>,
              <<"createdAt", "created_at", "unwrap", "unwrap">>,
              <<"acceptedBy", "accepted_by", "raw", "unwrap">> >>
      [] tableName = "category" ->
           << <<"id", "id", "raw", "unwrap">>,
              <<"name", "name", "raw", "unwrap">>,
              <<"description", "description", "raw", "unwrap">>,
              <<"displayOrder", "display_order", "raw", "unwrap">> >>
      [] tableName = "activity" ->
           << <<"id", "id", "raw", "unwrap">>,
              <<"categoryId", "category_id", "raw", "unwrap">>,
              <<"kind", "kind", "kind", "kind">>,
              <<"name", "name", "raw", "unwrap">>,
              <<"description", "description", "raw", "unwrap">>,
              <<"instructions", "instructions", "raw", "unwrap">>,
              <<"videoUrl", "video_url", "unwrap", "unwrap">>,
              <<"xpRequired", "xp_required", "raw", "unwrap">>,
              <<"xpReward", "xp_reward", "raw", "unwrap">> >>
      [] tableName = "player_activity" ->
           << <<"id", "id", "raw", "unwrap">>,
              <<"playerId", "player_id", "raw", "unwrap">>,
              <<"activityId", "activity_id", "raw", "unwrap">>,
              <<"status", "status", "activityStatus", "activityStatus">>,
              <<"completedAt", "completed_at", "unwrap", "unwrap">>,
              <<"completedBy", "completed_by", "raw", "unwrap">>,
              <<"vouched", "vouched", "raw", "unwrap">>,
              <<"rating", "rating", "raw", "unwrap">> >>
      [] tableName = "player_unlocked_activity" ->
           << <<"id", "id", "raw", "unwrap">>,
              <<"playerId", "player_id", "raw", "unwrap">>,
              <<"activityId", "activity_id", "raw", "unwrap">>,
              <<"activityName", "activity_name", "raw", "unwrap">>,
              <<"activityDescription", "activity_description", "raw", "unwrap">>,
              <<"categoryId", "category_id", "raw", "unwrap">>,
              <<"categoryName", "category_name", "raw", "unwrap">>,
              <<"kind", "kind", "kind", "kind">>,
              <<"xpRequired", "xp_required", "raw", "unwrap">>,
              <<"xpReward", "xp_reward", "raw", "unwrap">>,
              <<"unlockedAt", "unlocked_at", "unwrap", "unwrap">>,
              <<"isNew", "is_new", "raw", "unwrap">> >>
      [] tableName = "room_activity" ->
           << <<"id", "id", "raw", "unwrap">>,
              <<"roomId", "room_id", "raw", "unwrap">>,
              <<"activityId", "activity_id", "raw", "unwrap">>,
              <<"status", "status", "roomActivityStatus", "roomActivityStatus">>,
              <<"startedBy", "started_by", "raw", "unwrap">>,
              <<"createdAt", "created_at", "unwrap", "unwrap">>,
              <<"startedAt", "started_at", "unwrap", "unwrap">>,
              <<"completedAt", "completed_at", "unwrap", "unwrap">> >>
      [] tableName = "activity_participant" ->
           << <<"id", "id", "raw", "unwrap">>,
              <<"roomActivityId", "room_activity_id", "raw", "unwrap">>,
              <<"playerId", "player_id", "raw", "unwrap">>,
              <<"role", "role", "role", "role">>,
              <<"xpEarned", "xp_earned", "raw", "unwrap">>,
              <<"completed", "completed", "raw", "unwrap">> >>
      [] tableName = "player_not_wanted_activity" ->
           << <<"id", "id", "raw", "unwrap">>,
              <<"playerId", "player_id", "raw", "unwrap">>,
              <<"activityId", "activity_id", "raw", "unwrap">>,
              <<"createdAt", "created_at", "unwrap", "unwrap">> >>
      [] tableName = "user_category_preference" ->
           << <<"id", "id", "raw", "unwrap">>,
              <<"userId", "user_id", "raw", "unwrap">>,
              <<"categoryId", "category_id", "raw", "unwrap">> >>
      [] tableName = "player_category_preference" ->
           << <<"id", "id", "raw", "unwrap">>,
              <<"playerId", "player_id", "raw", "unwrap">>,
              <<"categoryId", "category_id", "raw", "unwrap">> >>
      [] OTHER -> << >>

\* SchemaOf, tabulated over the tables of the cache
SchemaTable == [t \in TableSet |-> SchemaOf(t)]

Schema(tableName) ==
    IF tableName \in TableSet THEN SchemaTable[tableName] ELSE << >>

\* one field of parseRow's result: the decoding named by how, applied to raw
decodeField(how, raw) ==
    CASE how = "unwrap" -> unwrap(raw)
      [] how = "role" -> parseRole(raw)
      [] how = "kind" -> parseKind(raw)
      [] how = "activityStatus" -> parseActivityStatus(raw)
      [] how = "roomActivityStatus" -> parseRoomActivityStatus(raw)
      [] OTHER -> raw

\* the object literal a branch of parseRow returns: shape is 3 for the
\* keyed-object branch (read row[snake_case key]) and 4 for the positional one
\* (read row[index])
recordOf(S, row, shape) ==
    Obj([n \in {S[i][1] : i \in 1..Len(S)} |->
           LET i == CHOOSE j \in 1..Len(S) : S[j][1] = n
           IN decodeField(S[i][shape],
                          IF shape = 3 THEN Get(row, S[i][2]) ELSE Idx(row, i - 1))])

buildRecord(tableName, row, shape) == recordOf(SchemaTable[tableName], row, shape)

\* JSON.parse of a string row: it throws on text that is not JSON
jsonParses(row) == row[1] = "json"

parseRow(tableName, row0) ==
    IF IsString(row0) /\ ~jsonParses(row0) THEN Null
    ELSE LET row == IF IsString(row0) THEN row0[2] ELSE row0
         IN IF (IsPlainObject(row) \/ IsArray(row)) /\ tableName \in TableSet
            THEN buildRecord(tableName, row, IF IsPlainObject(row) THEN 3 ELSE 4)
            ELSE row

-----------------------------------------------------------------------------
(* The table mirror.  A JavaScript Map is a function from its keys to its  *)
(* values; the iteration order of a Map is not modelled, so a list built   *)
(* by iterating a Map is a set (or a function of the Map's keys where two  *)
(* entries can be equal).                                                  *)

EmptyMap == [k \in {} |-> Undef]
MapSet(m, k, v) == [x \in DOMAIN m \cup {k} |-> IF x = k THEN v ELSE m[x]]
MapDelete(m, k) == [x \in DOMAIN m \ {k} |-> m[x]]
MapGet(m, k) == IF k \in DOMAIN m THEN m[k] ELSE Undef
Values(m) == {m[k] : k \in DOMAIN m}

\* the cache of a freshly constructed client
EmptyCache == [t \in TableSet |-> EmptyMap]

\* parsed?.id !== undefined
hasId(parsed) == IsPlainObject(parsed) /\ Get(parsed, "id") # Undef

RECURSIVE concatInserts(_)
concatInserts(updates) ==
    IF updates = << >> THEN << >>
    ELSE Head(updates).inserts \o concatInserts(Tail(updates))

RECURSIVE concatDeletes(_)
concatDeletes(updates) ==
    IF updates = << >> THEN << >>
    ELSE Head(updates).deletes \o concatDeletes(Tail(updates))

\* the inserts of a table update: the top-level array, then updates[].inserts
allInserts(tableUpdate) == tableUpdate.inserts \o concatInserts(tableUpdate.updates)

\* the deletes of a table update: the top-level array, then updates[].deletes
allDeletes(tableUpdate) == tableUpdate.deletes \o concatDeletes(tableUpdate.updates)

RECURSIVE deleteRows(_, _, _)
deleteRows(store, tableName, rows) ==
    IF rows = << >> THEN store
    ELSE LET parsed == parseRow(tableName, Head(rows))
         IN deleteRows(IF hasId(parsed) THEN MapDelete(store, Get(parsed, "id"))
                                        ELSE store,
                       tableName, Tail(rows))

\* mutant of insertRows: a row whose id the store already holds is not stored
RECURSIVE insertRows_FirstWins(_, _, _)
insertRows_FirstWins(store, tableName, rows) ==
    IF rows = << >> THEN store
    ELSE LET parsed == parseRow(tableName, Head(rows))
         IN insertRows_FirstWins(
                IF hasId(parsed) /\ Get(parsed, "id") \notin DOMAIN store
                THEN MapSet(store, Get(parsed, "id"), parsed) ELSE store,
                tableName, Tail(rows))

\* mutant of insertRows: a row that fails to decode ends the loop
RECURSIVE insertRows_StopAtBad(_, _, _)
insertRows_StopAtBad(store, tableName, rows) ==
    IF rows = << >> THEN store
    ELSE LET parsed == parseRow(tableName, Head(rows))
         IN IF hasId(parsed)
            THEN insertRows_StopAtBad(MapSet(store, Get(parsed, "id"), parsed),
                                      tableName, Tail(rows))
            ELSE store

RECURSIVE insertRows(_, _, _)
insertRows(store, tableName, rows) ==
    IF rows = << >> THEN store
    ELSE LET parsed == parseRow(tableName, Head(rows))
         IN insertRows(IF hasId(parsed) THEN MapSet(store, Get(parsed, "id"), parsed)
                                        ELSE store,
                       tableName, Tail(rows))

\* mutant of applyToStore: the inserts are processed before the deletes
applyToStore_InsertsFirst(store, tableUpdate) ==
    deleteRows(insertRows(store, tableUpdate.table_name, allInserts(tableUpdate)),
               tableUpdate.table_name, allDeletes(tableUpdate))

\* applyTableUpdate, the store: every delete, then every insert
applyToStore(store, tableUpdate) ==
    insertRows(deleteRows(store, tableUpdate.table_name, allDeletes(tableUpdate)),
               tableUpdate.table_name, allInserts(tableUpdate))

\* applyTableUpdate, the cache: a table without a cache is ignored
applyToCache(c, tableUpdate) ==
    IF tableUpdate.table_name \notin DOMAIN c THEN c
    ELSE [c EXCEPT ![tableUpdate.table_name] = applyToStore(@, tableUpdate)]

-----------------------------------------------------------------------------
(* The derived views.                                                      *)

\* a set as a sequence, in some fixed order
RECURSIVE SetToSeq(_)
SetToSeq(S) ==
    IF S = {} THEN << >>
    ELSE LET x == CHOOSE y \in S : TRUE IN <<x>> \o SetToSeq(S \ {x})

\* the values of field over the rows of a table that belong to playerId
memberSet(c, tableName, field, playerId) ==
    {Get(r, field) : r \in {x \in Values(c[tableName]) : Get(x, "playerId") = playerId}}

\* the loops "intersection over the members"; acc is <<isNull, set>>
RECURSIVE intersectOverMembers(_, _, _, _, _)
intersectOverMembers(c, tableName, field, members, acc) ==
    IF members = << >> THEN acc
    ELSE LET ms == memberSet(c, tableName, field, Get(Head(members), "playerId"))
         IN intersectOverMembers(c, tableName, field, Tail(members),
                IF acc[1] THEN <<FALSE, ms>>
                ELSE <<FALSE, {x \in acc[2] : x \in ms}>>)

\* the loop "union over the members"
RECURSIVE unionOverMembers(_, _, _, _)
unionOverMembers(c, tableName, field, members) ==
    IF members = << >> THEN {}
    ELSE memberSet(c, tableName, field, Get(Head(members), "playerId"))
            \cup unionOverMembers(c, tableName, field, Tail(members))

\* mutant of availableEntry: a missing category gets no placeholder
availableEntry_NoPlaceholder(c, activity) ==
    LET category == MapGet(c["category"], Get(activity, "categoryId"))
    IN Obj([k \in {"id", "name", "description", "instructions", "kind", "category",
                   "categoryId", "xpRequired", "xpReward"} |->
             IF k = "category" THEN Get(category, "name")
             ELSE Get(activity, k)])

\* the entry getRoomAvailableActivities pushes for an activity row
availableEntry(c, activity) ==
    LET category == MapGet(c["category"], Get(activity, "categoryId"))
    IN Obj([k \in {"id", "name", "description", "instructions", "kind", "category",
                   "categoryId", "xpRequired", "xpReward"} |->
             IF k = "category" THEN OrElse(Get(category, "name"), Str("Unknown"))
             ELSE Get(activity, k)])

\* mutant of getRoomAvailableActivities: the "not wanted" exclusion is left out
getRoomAvailableActivities_KeepNotWanted(c, roomId) ==
    LET roomMembers == SetToSeq({m \in Values(c["room_member"]) : Get(m, "roomId") = roomId})
        allowedCategories ==
            intersectOverMembers(c, "player_category_preference", "categoryId",
                                 roomMembers, <<TRUE, {}>>)
        unlockedActivityIds ==
            intersectOverMembers(c, "player_unlocked_activity", "activityId",
                                 roomMembers, <<TRUE, {}>>)
    IN IF roomMembers = << >> THEN {}
       ELSE {availableEntry(c, MapGet(c["activity"], a)) :
               a \in {x \in unlockedActivityIds[2] :
                        /\ MapGet(c["activity"], x) # Undef
                        /\ Get(MapGet(c["activity"], x), "categoryId")
                              \in allowedCategories[2]}}

\* mutant of getRoomAvailableActivities: unlocked by some member, not by all
getRoomAvailableActivities_AnyUnlocked(c, roomId) ==
    LET roomMembers == SetToSeq({m \in Values(c["room_member"]) : Get(m, "roomId") = roomId})
        allowedCategories ==
            intersectOverMembers(c, "player_category_preference", "categoryId",
                                 roomMembers, <<TRUE, {}>>)
        unlockedActivityIds ==
            unionOverMembers(c, "player_unlocked_activity", "activityId", roomMembers)
        notWantedActivityIds ==
            unionOverMembers(c, "player_not_wanted_activity", "activityId", roomMembers)
    IN IF roomMembers = << >> THEN {}
       ELSE {availableEntry(c, MapGet(c["activity"], a)) :
               a \in {x \in unlockedActivityIds :
                        /\ x \notin notWantedActivityIds
                        /\ MapGet(c["activity"], x) # Undef
                        /\ Get(MapGet(c["activity"], x), "categoryId")
                              \in allowedCategories[2]}}

\* mutant of getRoomAvailableActivities: the category filter is left out
getRoomAvailableActivities_AnyCategory(c, roomId) ==
    LET roomMembers == SetToSeq({m \in Values(c["room_member"]) : Get(m, "roomId") = roomId})
        unlockedActivityIds ==
            intersectOverMembers(c, "player_unlocked_activity", "activityId",
                                 roomMembers, <<TRUE, {}>>)
        notWantedActivityIds ==
            unionOverMembers(c, "player_not_wanted_activity", "activityId", roomMembers)
    IN IF roomMembers = << >> THEN {}
       ELSE {availableEntry(c, MapGet(c["activity"], a)) :
               a \in {x \in unlockedActivityIds[2] :
                        /\ x \notin notWantedActivityIds
                        /\ MapGet(c["activity"], x) # Undef}}

\* getRoomAvailableActivities(roomId) on the cache c; the result list as a set
getRoomAvailableActivities(c, roomId) ==
    LET roomMembers == SetToSeq({m \in Values(c["room_member"]) : Get(m, "roomId") = roomId})
        allowedCategories ==
            intersectOverMembers(c, "player_category_preference", "categoryId",
                                 roomMembers, <<TRUE, {}>>)
        unlockedActivityIds ==
            intersectOverMembers(c, "player_unlocked_activity", "activityId",
                                 roomMembers, <<TRUE, {}>>)
        notWantedActivityIds ==
            unionOverMembers(c, "player_not_wanted_activity", "activityId", roomMembers)
    IN IF roomMembers = << >> THEN {}
       ELSE {availableEntry(c, MapGet(c["activity"], a)) :
               a \in {x \in unlockedActivityIds[2] :
                        /\ x \notin notWantedActivityIds
                        /\ MapGet(c["activity"], x) # Undef
                        /\ Get(MapGet(c["activity"], x), "categoryId")
                              \in allowedCategories[2]}}

\* getCurrentUser(): the user row whose identity === this.identity, or null
getCurrentUser(c, ident) ==
    LET matching == {u \in Values(c["user"]) : Get(u, "identity") = ident}
    IN IF ~Truthy(ident) \/ matching = {} THEN Null
       ELSE CHOOSE u \in matching : TRUE

\* getUserCategoryPreferences(userId): one category id per matching row
getUserCategoryPreferences(c, userId) ==
    LET m == c["user_category_preference"]
    IN [k \in {x \in DOMAIN m : Get(m[x], "userId") = userId} |->
          Get(m[k], "categoryId")]

-----------------------------------------------------------------------------
(* Observer notification.  A call is [obs, arg]; the notify* operators     *)
(* return the sequence of calls they make on the cache c with the observer *)
(* fields reg registered.                                                  *)

Observers ==
    {"onRoomMembersUpdate", "onActivitiesUpdate", "onUnlockedActivitiesUpdate",
     "onRoomActivityUpdate", "onRoomAvailableActivitiesUpdate",
     "onPreferencesUpdate", "onCategoriesLoaded"}

Call(obs, arg) == [obs |-> obs, arg |-> arg]

\* one onRoomAvailableActivitiesUpdate(roomId, activities) per room id given
RECURSIVE pushRooms(_, _)
pushRooms(c, roomIds) ==
    IF roomIds = << >> THEN << >>
    ELSE <<Call("onRoomAvailableActivitiesUpdate",
                <<Head(roomIds), getRoomAvailableActivities(c, Head(roomIds))>>)>>
            \o pushRooms(c, Tail(roomIds))

notifyRoomAvailableActivitiesUpdate(c, reg) ==
    IF "onRoomAvailableActivitiesUpdate" \notin reg THEN << >>
    ELSE pushRooms(c, SetToSeq({Get(m, "roomId") : m \in Values(c["room_member"])}))

notifyPreferencesUpdate(c, reg, ident) ==
    LET user == getCurrentUser(c, ident)
        userPrefs == IF Truthy(user)
                     THEN getUserCategoryPreferences(c, Get(user, "id"))
                     ELSE EmptyMap
    IN (IF "onPreferencesUpdate" \in reg
        THEN <<Call("onPreferencesUpdate", userPrefs)>> ELSE << >>)
       \o notifyRoomAvailableActivitiesUpdate(c, reg)

\* the entry notifyRoomActivityUpdate builds for an active room activity
activeEntry(c, ra) ==
    LET activity == MapGet(c["activity"], Get(ra, "activityId"))
        category == IF Truthy(activity)
                    THEN MapGet(c["category"], Get(activity, "categoryId"))
                    ELSE Null
        ap == c["activity_participant"]
    IN [ra |-> ra,
        activity |-> activity,
        categoryName |-> OrElse(Get(category, "name"), Str("Unknown")),
        participants |->
            [k \in {x \in DOMAIN ap : Get(ap[x], "roomActivityId") = Get(ra, "id")} |->
                [ap |-> ap[k],
                 username |-> OrElse(Get(MapGet(c["player"], Get(ap[k], "playerId")),
                                         "username"),
                                     Str("Unknown"))]]]

notifyRoomActivityUpdate(c, reg) ==
    IF "onRoomActivityUpdate" \notin reg THEN << >>
    ELSE <<Call("onRoomActivityUpdate",
                {activeEntry(c, ra) :
                    ra \in {x \in Values(c["room_activity"]) :
                              Get(x, "status") \in {Str("Viewing"), Str("InProgress")}}})>>

notifyUnlockedActivitiesUpdate(c, reg) ==
    IF "onUnlockedActivitiesUpdate" \notin reg THEN << >>
    ELSE <<Call("onUnlockedActivitiesUpdate",
                [all |-> Values(c["player_unlocked_activity"]),
                 new |-> {ua \in Values(c["player_unlocked_activity"]) :
                            Truthy(Get(ua, "isNew"))}])>>

notifyRoomMembersUpdate(c, reg) ==
    LET rm == c["room_member"]
        withPlayer == {k \in DOMAIN rm :
                         Truthy(MapGet(c["player"], Get(rm[k], "playerId")))}
        members == [k \in withPlayer |->
                      [playerId |-> Get(rm[k], "playerId"),
                       username |-> Get(MapGet(c["player"], Get(rm[k], "playerId")),
                                        "username"),
                       xp |-> Get(MapGet(c["player"], Get(rm[k], "playerId")), "xp"),
                       role |-> Get(rm[k], "role"),
                       roomId |-> Get(rm[k], "roomId")]]
        roomIds == {Get(rm[k], "roomId") : k \in withPlayer}
    IN (IF "onRoomMembersUpdate" \in reg
        THEN <<Call("onRoomMembersUpdate", members)>> ELSE << >>)
       \o (IF "onRoomAvailableActivitiesUpdate" \in reg
           THEN pushRooms(c, SetToSeq(roomIds)) ELSE << >>)
       \o (IF "onActivitiesUpdate" \in reg
           THEN <<Call("onActivitiesUpdate", << >>)>> ELSE << >>)

\* applyTableUpdate, the callbacks it triggers once the store is updated:
\* c is the cache after the update, loaded is this.categoriesLoaded before it
tableCallbacks(c, reg, ident, loaded, tableName) ==
    (IF tableName = "category" /\ ~loaded /\ DOMAIN c["category"] # {}
        /\ "onCategoriesLoaded" \in reg
     THEN <<Call("onCategoriesLoaded", Values(c["category"]))>> ELSE << >>)
    \o (IF tableName = "player_unlocked_activity"
        THEN notifyUnlockedActivitiesUpdate(c, reg)
                \o notifyRoomAvailableActivitiesUpdate(c, reg)
        ELSE << >>)
    \o (IF tableName = "player_not_wanted_activity"
        THEN notifyRoomAvailableActivitiesUpdate(c, reg) ELSE << >>)
    \o (IF tableName \in {"room_activity", "activity_participant"}
        THEN notifyRoomActivityUpdate(c, reg) ELSE << >>)
    \o (IF tableName \in {"user_category_preference", "player_category_preference"}
           /\ "onPreferencesUpdate" \in reg
        THEN notifyPreferencesUpdate(c, reg, ident) ELSE << >>)

\* mutant of loadedAfter: the flag is not raised
loadedAfter_NeverRaised(c, loaded, tableName) == loaded

\* this.categoriesLoaded after applyTableUpdate of a table
loadedAfter(c, loaded, tableName) ==
    loaded \/ (tableName = "category" /\ DOMAIN c["category"] # {})

\* a call, stamped with the number of table updates of the message that
\* were applied when it was made
RECURSIVE stamp(_, _)
stamp(cs, applied) ==
    IF cs = << >> THEN << >>
    ELSE <<[obs |-> Head(cs).obs, arg |-> Head(cs).arg, applied |-> applied]>>
            \o stamp(Tail(cs), applied)

\* applyTableUpdate(tableUpdate) as the n-th table update of a message:
\* st is [cache, loaded, calls] before it, c2 the cache after it
applyTableUpdate(st, reg, ident, tableName, c2, n) ==
    IF tableName \notin DOMAIN st.cache THEN st
    ELSE [cache |-> c2,
          loaded |-> loadedAfter(c2, st.loaded, tableName),
          calls |-> st.calls
                      \o stamp(tableCallbacks(c2, reg, ident, st.loaded, tableName), n)]

\* the loop "for (const tableUpdate of tables) this.applyTableUpdate(tableUpdate)":
\* i is the number of table updates already applied
RECURSIVE applyTables(_, _, _, _, _)
applyTables(st, reg, ident, tables, i) ==
    IF i >= Len(tables) THEN st
    ELSE applyTables(applyTableUpdate(st, reg, ident, tables[i + 1].table_name,
                                      applyToCache(st.cache, tables[i + 1]), i + 1),
                     reg, ident, tables, i + 1)

\* the trailing this.notifyRoomMembersUpdate() of the three handlers, after
\* the n table updates of the message
thenNotifyRoomMembers(after, reg, n) ==
    [after EXCEPT !.calls = @ \o stamp(notifyRoomMembersUpdate(after.cache, reg), n)]

\* mutant of handleTables: an initial subscription replaces the stores
handleTables_SnapshotReplaces(st, reg, ident, msg) ==
    IF msg.kind = "TransactionUpdate" /\ ~msg.committed THEN st
    ELSE thenNotifyRoomMembers(
            applyTables(IF msg.kind = "InitialSubscription"
                        THEN [st EXCEPT !.cache = EmptyCache] ELSE st,
                        reg, ident, msg.tables, 0),
            reg, Len(msg.tables))

\* mutant of handleTables: the status of a transaction update is not looked at
handleTables_AppliesUncommitted(st, reg, ident, msg) ==
    thenNotifyRoomMembers(applyTables(st, reg, ident, msg.tables, 0),
                          reg, Len(msg.tables))

\* handleInitialSubscription / handleTransactionUpdate / handleSubscriptionUpdate:
\* msg is [kind, tables, committed]; tables is << >> when the payload has none
handleTables(st, reg, ident, msg) ==
    IF msg.kind = "TransactionUpdate" /\ ~msg.committed THEN st
    ELSE thenNotifyRoomMembers(applyTables(st, reg, ident, msg.tables, 0),
                               reg, Len(msg.tables))

\* ws.onmessage for a message carrying table updates
HandleMessage(msg) ==
    \E st \in {handleTables([cache |-> cache, loaded |-> categoriesLoaded,
                              calls |-> << >>],
                             registered, identity, msg)} :
       /\ cache' = st.cache
       /\ categoriesLoaded' = st.loaded
       /\ calls' = st.calls
       /\ lastMsg' = msg
       /\ handled' = handled + 1
       /\ UNCHANGED <<registered, identity>>

-----------------------------------------------------------------------------
(* Wire encodings of rows, for the inputs of the specifications.           *)

\* the plain value a field carries when nothing else is said
PlainValue(i) == Num(i)

\* the wire values of a row of tableName, field by field: fields gives the
\* values of some canonical fields
RowValues(tableName, fields) ==
    LET S == Schema(tableName)
    IN [i \in 1..Len(S) |->
          IF S[i][1] \in DOMAIN fields THEN fields[S[i][1]] ELSE PlainValue(i)]

\* the row with these wire values in a wire shape
Encode(tableName, values, shape) ==
    LET S == Schema(tableName)
        keyed == Obj([k \in {S[i][2] : i \in 1..Len(S)} |->
                        values[CHOOSE j \in 1..Len(S) : S[j][2] = k]])
    IN CASE shape = "positional" -> Arr(values)
         [] shape = "keyed" -> keyed
         [] shape = "json" -> JsonText(Arr(values))
         [] shape = "jsonKeyed" -> JsonText(keyed)

-----------------------------------------------------------------------------
(* Decoder harness: a logical row of a table, in which one field takes    *)
(* each of the accepted wire forms, is encoded in both shapes and decoded.*)

\* the variant names that rows carry in their sum-typed fields
VariantNames ==
    {"Top", "Bottom", "Observer", "Photographer", "ActivityAdmin",
     "Skill", "Activity", "Locked", "Available", "Completed",
     "Viewing", "InProgress", "Cancelled"}

\* the wire forms a field value can take
WireForms ==
    { Num(7), Str("v"), Bool(TRUE), Null,
      Arr(<<Num(7)>>), Arr(<<Str("v")>>),                \* singleton-wrapped
      Arr(<<Num(0), Num(7)>>), Arr(<<Num(0), Str("v")>>), \* Option: Some
      Arr(<<Num(1), EmptyObj>>), Arr(<<Num(1), EmptyArr>>), \* Option: None
      Obj([k \in {"__identity__"} |-> Str("0xab12")]),
      Obj([k \in {"__timestamp_micros_since_unix_epoch__"} |-> Num(7)]),
      Arr(<<Num(0), EmptyObj>>), Arr(<<Num(2), EmptyObj>>), \* [ordinal, payload]
      Obj([k \in {"Bottom"} |-> EmptyObj]),               \* {VariantName: payload}
      Obj([k \in {"Completed"} |-> EmptyObj]),
      Str("Bottom"), Str("Completed"), Str("Skill"),
      Arr(<<Str("a"), Str("b")>>), EmptyArr }               \* other sequences
    \cup {Arr(<<Num(k), EmptyObj>>) : k \in {0, 1, 2, 3, 4, 9}}
    \cup {Obj([k \in {n} |-> EmptyObj]) : n \in VariantNames}
    \cup {Str(n) : n \in VariantNames}

\* the wire values of the fields of the row decIn describes
FieldValues(d) ==
    [i \in 1..Len(Schema(d.table)) |->
        IF i = d.field THEN d.form ELSE PlainValue(i)]

MirrorIdle ==
    /\ cache = EmptyCache /\ categoriesLoaded = FALSE /\ registered = {}
    /\ identity = Null /\ lastMsg = << >> /\ calls = << >> /\ handled = 0

DecodeIdle == decIn = << >> /\ decOut = << >>

\* the connection manager of a freshly constructed client, nothing stored
ConnIdle ==
    /\ socks = << >> /\ ws = 0
    /\ reconnectAttempts = 0 /\ isReconnecting = FALSE
    /\ intentionalDisconnect = FALSE /\ reconnectTimeoutId = 0
    /\ timers = {}
    /\ token = Null /\ storage = [identity |-> Null, token |-> Null]
    /\ subscriptionCounter = 0
    /\ lastStep = [op |-> "new", calls |-> << >>, frames |-> << >>]
    /\ scheduled = 0 /\ userDisconnected = FALSE

\* the reducer gateway before any call
GatewayIdle == rpc = << >>
ViewIdle == view = << >>
AsyncIdle == pending = {} /\ wait = << >>

DecodeInit ==
    /\ decIn \in UNION {{[table |-> t, field |-> f, form |-> w] :
                            f \in 1..Len(Schema(t)), w \in WireForms} :
                         t \in TableSet}
    /\ decOut = << >>
    /\ MirrorIdle /\ ConnIdle /\ GatewayIdle /\ ViewIdle /\ AsyncIdle

Decode ==
    /\ decOut = << >>
    /\ decOut' = [pos |-> parseRow(decIn.table,
                                   Encode(decIn.table, FieldValues(decIn), "positional")),
                  obj |-> parseRow(decIn.table,
                                   Encode(decIn.table, FieldValues(decIn), "keyed"))]
    /\ UNCHANGED <<decIn, mirrorVars, connVars, gatewayVars, viewVars, asyncVars>>

DecodeNext == Decode

SpecDecode == DecodeInit /\ [][DecodeNext]_vars

\* C10: for every table and every logical row, parseRow of the positional
\* encoding and parseRow of the keyed-object encoding return records that are
\* equal field by field, whatever wire form (option-wrapped, singleton-wrapped,
\* variant encoding) the fields take.
C10_ShapesDecodeAlike ==
    decOut # << >> => decOut.pos = decOut.obj

-----------------------------------------------------------------------------------------------------------------------------------------------------
(* Mirror harness: one batch for one table, over every table and a set of  *)
(* stores of that table.                                                   *)

MaxOps == 2
ApplyIds == {1, 2}

\* a message kind with the row shape its rows come in (parseRow's comments:
\* objects from InitialSubscription, arrays from TransactionUpdate, strings)
Formats ==
    {<<"InitialSubscription", "keyed">>, <<"TransactionUpdate", "positional">>,
     <<"SubscriptionUpdate", "json">>}
Layouts == {"top", "nested"}

\* a row of the table with this id, whose second field carries the variant
ApplyRow(tableName, id, variant, shape) ==
    LET S == Schema(tableName)
    IN Encode(tableName,
              [i \in 1..Len(S) |-> IF i = 1 THEN Num(id)
                                   ELSE IF i = 2 THEN Str(variant)
                                   ELSE PlainValue(i)],
              shape)

\* a row that is no JSON text, and a row that decodes without an id
BadRows == {Str("not json"), EmptyArr}

\* the insert and delete operations a batch is made of
ApplyOps(tableName, shape) ==
    {[op |-> "insert", row |-> ApplyRow(tableName, i, v, shape)] :
        i \in ApplyIds, v \in {"old", "new"}}
    \cup {[op |-> "delete", row |-> ApplyRow(tableName, i, "old", shape)] :
            i \in ApplyIds}
    \cup {[op |-> o, row |-> r] : o \in {"insert", "delete"}, r \in BadRows}

OpSeqs(ops) == UNION {[1..n -> ops] : n \in 1..MaxOps}

RowsOf(ops, kind) ==
    LET sel == SelectSeq(ops, LAMBDA o : o.op = kind)
    IN [i \in 1..Len(sel) |-> sel[i].row]

\* the table update that carries the operations in a layout: the top-level
\* inserts/deletes arrays, or one updates[] entry per operation, in order
TableUpdate(tableName, ops, layout) ==
    IF layout = "top"
    THEN [table_name |-> tableName, inserts |-> RowsOf(ops, "insert"),
          deletes |-> RowsOf(ops, "delete"), updates |-> << >>]
    ELSE [table_name |-> tableName, inserts |-> << >>, deletes |-> << >>,
          updates |-> [i \in 1..Len(ops) |->
                         [inserts |-> RowsOf(<<ops[i]>>, "insert"),
                          deletes |-> RowsOf(<<ops[i]>>, "delete")]]]

Message(kind, tables) == [kind |-> kind, tables |-> tables, committed |-> TRUE]

\* the stores the harness starts from: each id absent or holding its old row
ApplySeeds(tableName) ==
    {insertRows(EmptyMap, tableName,
                SetToSeq({ApplyRow(tableName, i, "old", "positional") : i \in ids})) :
        ids \in SUBSET ApplyIds}

ApplyInit ==
    /\ \E t \in TableSet : \E store \in ApplySeeds(t) :
          cache = [EmptyCache EXCEPT ![t] = store]
    /\ categoriesLoaded = FALSE
    /\ registered = Observers
    /\ identity = Null /\ lastMsg = << >> /\ calls = << >> /\ handled = 0
    /\ DecodeIdle /\ ConnIdle /\ GatewayIdle /\ ViewIdle /\ AsyncIdle

\* one inbound message with one table update, for the table the store is of
\* (any table when every store is empty) or for a table that has no cache
ApplyBatch ==
    /\ handled = 0
    /\ \E t \in TableSet \cup {"no_such_table"} :
         /\ \A u \in TableSet \ {t} : DOMAIN cache[u] = {}
         /\ \E fmt \in Formats, layout \in Layouts :
              \E ops \in OpSeqs(ApplyOps(t, fmt[2])) :
                /\ HandleMessage(Message(fmt[1], <<TableUpdate(t, ops, layout)>>))
                /\ UNCHANGED <<decodeVars, connVars, gatewayVars, viewVars, asyncVars>>

ApplyNext == ApplyBatch

SpecApply == ApplyInit /\ [][ApplyNext]_vars

\* the ids the rows of a list decode to
decodedIds(tableName, rows) ==
    {Get(parseRow(tableName, rows[i]), "id") :
        i \in {j \in 1..Len(rows) : hasId(parseRow(tableName, rows[j]))}}

\* the decoded form of the last row of the list that decodes to the id
lastWithId(tableName, rows, id) ==
    parseRow(tableName,
             rows[CHOOSE i \in 1..Len(rows) :
                    /\ Get(parseRow(tableName, rows[i]), "id") = id
                    /\ \A j \in (i + 1)..Len(rows) :
                          Get(parseRow(tableName, rows[j]), "id") # id])

\* the ids that the batch handled last both deletes and inserts
sharedIds ==
    LET tu == lastMsg.tables[1]
    IN decodedIds(tu.table_name, allDeletes(tu))
          \cap decodedIds(tu.table_name, allInserts(tu))

\* C1: for every table and every table update whose deletes and inserts
\* contain rows with the same id, after applyTableUpdate the store maps that id
\* to the inserted row, wherever the payload lists the inserts and the deletes
\* (top level or nested under updates[], inserts before or after deletes).
C1_DeleteThenInsert ==
    (lastMsg # << >> /\ lastMsg.tables[1].table_name \in TableSet) =>
        LET tu == lastMsg.tables[1]
        IN \A id \in sharedIds :
              /\ id \in DOMAIN cache[tu.table_name]
              /\ cache[tu.table_name][id]
                    = lastWithId(tu.table_name, allInserts(tu), id)

\* C1 witness: a nested batch that lists the insert of an id before the delete
\* of the same id has been applied, and the store holds the inserted row
C1_Witness ==
    /\ lastMsg # << >>
    /\ lastMsg.tables[1].table_name = "room_member"
    /\ Len(lastMsg.tables[1].updates) = 2
    /\ lastMsg.tables[1].updates[1].inserts # << >>
    /\ lastMsg.tables[1].updates[2].deletes # << >>
    /\ sharedIds = {Num(1)}
    /\ Get(cache["room_member"][Num(1)], "roomId") = Str("new")

-----------------------------------------------------------------------------
(* Derivation harness: mirrors of a small world (two players, two rooms,   *)
(* two activities, two categories) and the scenario of the specification,  *)
(* each followed by one message that mirrors a "not wanted" row.           *)

MaxPerTable == 2
MaxNotWanted == 1
PlayerIds == {1, 2}
ActivityIds == {1, 2}
CategoryIds == {1, 2}
MemberPool == {<<1, 1>>, <<1, 2>>, <<2, 2>>}    \* <<room, player>>

\* wire rows of the tables the derivation reads, in a wire shape
MemberRow(room, player, shape) ==
    Encode("room_member",
           RowValues("room_member",
                     [id |-> Num(10 * room + player), roomId |-> Num(room),
                      playerId |-> Num(player), role |-> Arr(<<Num(0), EmptyObj>>)]),
           shape)

PlayerRow(player, shape) ==
    Encode("player",
           RowValues("player", [id |-> Num(player), username |-> Str("player")]),
           shape)

UnlockedRow(player, activity, shape) ==
    Encode("player_unlocked_activity",
           RowValues("player_unlocked_activity",
                     [id |-> Num(10 * player + activity), playerId |-> Num(player),
                      activityId |-> Num(activity),
                      kind |-> Arr(<<Num(1), EmptyObj>>), isNew |-> Bool(TRUE)]),
           shape)

NotWantedRow(player, activity, shape) ==
    Encode("player_not_wanted_activity",
           RowValues("player_not_wanted_activity",
                     [id |-> Num(10 * player + activity), playerId |-> Num(player),
                      activityId |-> Num(activity)]),
           shape)

PrefRow(player, category, shape) ==
    Encode("player_category_preference",
           RowValues("player_category_preference",
                     [id |-> Num(10 * player + category), playerId |-> Num(player),
                      categoryId |-> Num(category)]),
           shape)

ActivityRow(activity, category, shape) ==
    Encode("activity",
           RowValues("activity",
                     [id |-> Num(activity), categoryId |-> Num(category),
                      kind |-> Arr(<<Num(1), EmptyObj>>), name |-> Str("activity")]),
           shape)

CategoryRow(category, shape) ==
    Encode("category",
           RowValues("category", [id |-> Num(category), name |-> Str("Games")]),
           shape)

\* the mirror after a snapshot of these rows
Mirror(members, players, unlocked, notWanted, prefs, activities, categories) ==
    [EmptyCache EXCEPT
       !["room_member"] = insertRows(EmptyMap, "room_member",
            SetToSeq({MemberRow(m[1], m[2], "keyed") : m \in members})),
       !["player"] = insertRows(EmptyMap, "player",
            SetToSeq({PlayerRow(q, "keyed") : q \in players})),
       !["player_unlocked_activity"] = insertRows(EmptyMap, "player_unlocked_activity",
            SetToSeq({UnlockedRow(u[1], u[2], "keyed") : u \in unlocked})),
       !["player_not_wanted_activity"] = insertRows(EmptyMap, "player_not_wanted_activity",
            SetToSeq({NotWantedRow(u[1], u[2], "keyed") : u \in notWanted})),
       !["player_category_preference"] = insertRows(EmptyMap, "player_category_preference",
            SetToSeq({PrefRow(u[1], u[2], "keyed") : u \in prefs})),
       !["activity"] = insertRows(EmptyMap, "activity",
            SetToSeq({ActivityRow(a[1], a[2], "keyed") : a \in activities})),
       !["category"] = insertRows(EmptyMap, "category",
            SetToSeq({CategoryRow(k, "keyed") : k \in categories}))]

UpTo(pool, n) == {x \in SUBSET pool : Cardinality(x) <= n}

\* the scenario: room 1 with members 1 and 2; member 1 has activities 1, 2, 3
\* unlocked and member 2 has 2, 3, 4; activity 1 and 2 are of category 1,
\* 3 and 4 of category 2; both members allow both categories
ScenarioMirror ==
    Mirror({<<1, 1>>, <<1, 2>>}, {1, 2},
           {<<1, 1>>, <<1, 2>>, <<1, 3>>, <<2, 2>>, <<2, 3>>, <<2, 4>>},
           {},
           {<<1, 1>>, <<1, 2>>, <<2, 1>>, <<2, 2>>},
           {<<1, 1>>, <<2, 1>>, <<3, 2>>, <<4, 2>>},
           {1, 2})

\* the mirrors of the small world: activity 1 is of category 1, activity 2 is
\* absent or of category 2; category 2 has no row
DeriveSeed ==
    \E m \in UpTo(MemberPool, MaxPerTable),
       u \in UpTo(PlayerIds \X ActivityIds, MaxPerTable),
       nw \in UpTo(PlayerIds \X ActivityIds, MaxNotWanted),
       pr \in UpTo(PlayerIds \X CategoryIds, MaxPerTable),
       a2 \in {{}, {<<2, 2>>}} :
         cache = Mirror(m, {1}, u, nw, pr, {<<1, 1>>} \cup a2, {1})

DeriveInit ==
    /\ (DeriveSeed \/ cache = ScenarioMirror)
    /\ categoriesLoaded = TRUE
    /\ registered = {"onRoomAvailableActivitiesUpdate"}
    /\ identity = Null /\ lastMsg = << >> /\ calls = << >> /\ handled = 0
    /\ DecodeIdle /\ ConnIdle /\ GatewayIdle /\ ViewIdle /\ AsyncIdle

\* a transaction update that inserts one "not wanted" row, of a player for a
\* mirrored activity
MarkNotWanted ==
    /\ handled = 0
    /\ \E q \in PlayerIds, a \in DOMAIN cache["activity"] :
          HandleMessage(Message("TransactionUpdate",
              <<[table_name |-> "player_not_wanted_activity",
                 inserts |-> <<NotWantedRow(q, a[2], "positional")>>,
                 deletes |-> << >>, updates |-> << >>]>>))
    /\ UNCHANGED <<decodeVars, connVars, gatewayVars, viewVars, asyncVars>>

DeriveNext == MarkNotWanted

SpecDerive == DeriveInit /\ [][DeriveNext]_vars

\* the rooms looked at: 1 and 2 can have members, 3 never has one
RoomIds == {1, 2, 3}

\* the ids of the entries getRoomAvailableActivities returns for a room
availableIds(c, room) == {Get(e, "id") : e \in getRoomAvailableActivities(c, Num(room))}

\* the players that are members of a room, and the rows of a table of a player
playersOf(c, room) ==
    {Get(m, "playerId") : m \in {x \in Values(c["room_member"]) :
                                   Get(x, "roomId") = Num(room)}}

rowsOf(c, tableName, player) ==
    {x \in Values(c[tableName]) : Get(x, "playerId") = player}

\* the ids the specification asks for: mirrored activities that every member
\* has unlocked, that no member marked not wanted, and whose category every
\* member prefers
expectedIds(c, room) ==
    {a \in DOMAIN c["activity"] :
        /\ playersOf(c, room) # {}
        /\ \A q \in playersOf(c, room) :
              /\ \E ua \in rowsOf(c, "player_unlocked_activity", q) :
                    Get(ua, "activityId") = a
              /\ \A nw \in rowsOf(c, "player_not_wanted_activity", q) :
                    Get(nw, "activityId") # a
              /\ \E pr \in rowsOf(c, "player_category_preference", q) :
                    Get(pr, "categoryId") = Get(c["activity"][a], "categoryId")}

\* C6: in every mirror state and for every room, getRoomAvailableActivities
\* returns one entry per mirrored activity that is unlocked by every member,
\* not wanted by none and of a category every member prefers, and nothing
\* else; for a room without members it returns the empty list.
C6_AvailableIsSpecSet ==
    \A room \in RoomIds :
        /\ availableIds(cache, room) = expectedIds(cache, room)
        /\ \A e \in getRoomAvailableActivities(cache, Num(room)) :
              /\ Get(e, "categoryId") = Get(cache["activity"][Get(e, "id")], "categoryId")
              /\ Get(e, "name") = Get(cache["activity"][Get(e, "id")], "name")
        /\ (playersOf(cache, room) = {} => getRoomAvailableActivities(cache, Num(room)) = {})

\* a room with two members whose result is not empty, and a room without members
C6_Witness ==
    /\ Cardinality(playersOf(cache, 1)) = 2
    /\ availableIds(cache, 1) # {}
    /\ availableIds(cache, 1) # DOMAIN cache["activity"]
    /\ playersOf(cache, 3) = {}

\* the "not wanted" rows a step adds to the mirror
addedNotWanted ==
    Values(cache["player_not_wanted_activity"])' \ Values(cache["player_not_wanted_activity"])

\* the mirror of the scenario, with any "not wanted" rows taken out
IsScenario(c) == [c EXCEPT !["player_not_wanted_activity"] = EmptyMap] = ScenarioMirror

\* C7: an activity that a member of a room marked not wanted is absent from
\* the room's result, whatever the other members unlocked and prefer; a step
\* that mirrors a "not wanted" row takes only that activity out of the result
\* of a room, and in the scenario the result {2, 3} becomes {2} when either
\* member marks activity 3.
C7_NotWantedRemoves ==
    /\ [](\A room \in RoomIds : \A q \in playersOf(cache, room) :
            \A nw \in rowsOf(cache, "player_not_wanted_activity", q) :
               Get(nw, "activityId") \notin availableIds(cache, room))
    /\ [](IsScenario(cache) =>
            availableIds(cache, 1) =
               {Num(2), Num(3)} \ {Get(nw, "activityId") :
                                      nw \in Values(cache["player_not_wanted_activity"])})
    /\ [][\A room \in RoomIds :
            getRoomAvailableActivities(cache, Num(room))' =
               {e \in getRoomAvailableActivities(cache, Num(room)) :
                  \A nw \in addedNotWanted :
                     Get(nw, "playerId") \in playersOf(cache, room)
                        => Get(nw, "activityId") # Get(e, "id")}]_vars

\* the scenario after a member marked activity 3: the result is {2}
C7_Witness ==
    /\ handled = 1
    /\ IsScenario(cache)
    /\ {Get(nw, "activityId") : nw \in Values(cache["player_not_wanted_activity"])}
          = {Num(3)}
    /\ availableIds(cache, 1) = {Num(2)}

\* C8: a room that has a member without any player_category_preference row
\* has an empty result, whatever the other members prefer and whatever is
\* unlocked.
C8_NoPreferenceEmpties ==
    \A room \in RoomIds :
        (\E q \in playersOf(cache, room) :
            rowsOf(cache, "player_category_preference", q) = {})
        => getRoomAvailableActivities(cache, Num(room)) = {}

\* a room of two members: one prefers the category of an activity both have
\* unlocked, the other has no preference row
C8_Witness ==
    /\ Cardinality(playersOf(cache, 1)) = 2
    /\ \E q \in playersOf(cache, 1) :
          rowsOf(cache, "player_category_preference", q) = {}
    /\ \E a \in DOMAIN cache["activity"] :
          /\ \A q \in playersOf(cache, 1) :
                \E ua \in rowsOf(cache, "player_unlocked_activity", q) :
                   Get(ua, "activityId") = a
          /\ \E pr \in Values(cache["player_category_preference"]) :
                /\ Get(pr, "playerId") \in playersOf(cache, 1)
                /\ Get(pr, "categoryId") = Get(cache["activity"][a], "categoryId")
          /\ \A nw \in Values(cache["player_not_wanted_activity"]) :
                Get(nw, "activityId") # a

-----------------------------------------------------------------------------
(* Notification harness: a small mirror, with every observer registered or  *)
(* only onRoomAvailableActivitiesUpdate, handles one message that carries   *)
(* up to MaxTables table updates.                                           *)

MaxTables == 2

\* a table update that inserts one row
InsertOf(tableName, row) ==
    [table_name |-> tableName, inserts |-> <<row>>, deletes |-> << >>, updates |-> << >>]

\* a table update that deletes one row
DeleteOf(tableName, row) ==
    [table_name |-> tableName, inserts |-> << >>, deletes |-> <<row>>, updates |-> << >>]

\* the table updates a message is made of
NotifyUpdates ==
    {InsertOf("room_member", MemberRow(1, 1, "positional")),
     InsertOf("room_member", MemberRow(2, 2, "keyed")),
     InsertOf("player", PlayerRow(2, "positional")),
     DeleteOf("player", PlayerRow(1, "keyed")),
     InsertOf("player_unlocked_activity", UnlockedRow(1, 1, "positional")),
     InsertOf("player_category_preference", PrefRow(1, 1, "json")),
     InsertOf("player_not_wanted_activity", NotWantedRow(1, 1, "keyed"))}

NotifySeed ==
    \E m \in SUBSET {<<1, 1>>, <<2, 2>>}, pl \in SUBSET PlayerIds,
       u \in SUBSET {<<1, 1>>}, pr \in SUBSET {<<1, 1>>} :
         cache = Mirror(m, pl, u, {}, pr, {<<1, 1>>}, {1})

NotifyInit ==
    /\ NotifySeed
    /\ categoriesLoaded = TRUE
    /\ registered \in {Observers, {"onRoomAvailableActivitiesUpdate"}}
    /\ identity = Null /\ lastMsg = << >> /\ calls = << >> /\ handled = 0
    /\ DecodeIdle /\ ConnIdle /\ GatewayIdle /\ ViewIdle /\ AsyncIdle

\* one message of up to MaxTables table updates is handled
NotifyBatch ==
    /\ handled = 0
    /\ \E kind \in {"InitialSubscription", "TransactionUpdate", "SubscriptionUpdate"},
          tables \in UNION {[1..n -> NotifyUpdates] : n \in 1..MaxTables} :
          HandleMessage(Message(kind, tables))
    /\ UNCHANGED <<decodeVars, connVars, gatewayVars, viewVars, asyncVars>>

NotifyNext == NotifyBatch

SpecNotify == NotifyInit /\ [][NotifyNext]_vars

\* the observers of the derived views
DerivedObservers ==
    {"onRoomAvailableActivitiesUpdate", "onRoomActivityUpdate",
     "onUnlockedActivitiesUpdate", "onPreferencesUpdate", "onRoomMembersUpdate"}

\* C2: while a message is handled, an observer of a derived view is invoked
\* only once every table update of the message is applied to the mirror.
C2_NoObserverMidBatch ==
    \A i \in DOMAIN calls :
        calls[i].obs \in DerivedObservers => calls[i].applied = Len(lastMsg.tables)

\* the tables whose change asks for the available activities to be pushed
PushTables ==
    {"room_member", "player_unlocked_activity", "player_not_wanted_activity",
     "user_category_preference", "player_category_preference"}

\* the values pushed to onRoomAvailableActivitiesUpdate for a room, in order
pushesFor(cs, roomId) ==
    SelectSeq(cs, LAMBDA x : x.obs = "onRoomAvailableActivitiesUpdate"
                              /\ x.arg[1] = roomId)

\* C9: once a message that changes one of these tables is handled, the
\* registered onRoomAvailableActivitiesUpdate was invoked for every room that
\* has a room_member row, and the last value pushed for the room is its
\* getRoomAvailableActivities on the mirror after the message.
C9_PushedForEveryRoom ==
    [][((\E t \in PushTables : cache'[t] # cache[t])
          /\ "onRoomAvailableActivitiesUpdate" \in registered)
       => \A roomId \in {Get(m, "roomId") : m \in Values(cache'["room_member"])} :
             /\ pushesFor(calls', roomId) # << >>
             /\ pushesFor(calls', roomId)[Len(pushesFor(calls', roomId))].arg[2]
                   = getRoomAvailableActivities(cache', roomId)]_vars

-----------------------------------------------------------------------------
(* The connection manager: connect, attemptReconnect, disconnect and the    *)
(* handlers of a socket's open, error, close and message events.  A socket  *)
(* keeps its handlers after this.ws moves on, so an event of any socket     *)
(* created so far can arrive.                                               *)

maxReconnectAttempts == 3
reconnectDelay == 120000
reconnectDelayCap == 30000

\* the sockets that may be alive (not yet closed) at the same time
MaxSockets == 2

\* the request ids the run may use up
MaxRequestId == 6

Min(a, b) == IF a <= b THEN a ELSE b

\* the observer fields of the connection, all holding a callback
ConnObservers == {"onConnect", "onDisconnect", "onError"}

notify(obs) == IF obs \in ConnObservers THEN <<obs>> ELSE << >>

\* what a handler did: the observers it called and the frames it sent
Step(op, called, frames) == [op |-> op, calls |-> called, frames |-> frames]

\* a closed socket delivers no event any more: it is kept only while this.ws
\* still refers to it
alive(sk, current) ==
    [i \in {j \in DOMAIN sk : sk[j] # "closed" \/ j = current} |-> sk[i]]

\* the id of the next socket: the least one no kept socket has
socketId(sk) ==
    CHOOSE n \in 1..(Cardinality(DOMAIN sk) + 1) :
        n \notin DOMAIN sk /\ \A m \in 1..(n - 1) : m \in DOMAIN sk

\* the fields attemptReconnect reads and writes
Reconnect ==
    [reconnectAttempts |-> reconnectAttempts, isReconnecting |-> isReconnecting,
     intentionalDisconnect |-> intentionalDisconnect,
     reconnectTimeoutId |-> reconnectTimeoutId, timers |-> timers]

\* the id setTimeout returns: one that no pending timer has and that differs
\* from the id this.reconnectTimeoutId still holds
timerId(r) ==
    CHOOSE n \in 1..(Cardinality(r.timers) + 2) :
        /\ n \notin {t.id : t \in r.timers} \cup {r.reconnectTimeoutId}
        /\ \A m \in 1..(n - 1) :
              m \in {t.id : t \in r.timers} \cup {r.reconnectTimeoutId}

\* mutant of delayOf: the delay is not capped
delayOf_NoCap(n) == reconnectDelay * 2 ^ (n - 1)

\* the delay of reconnect attempt n
delayOf(n) == Min(reconnectDelay * 2 ^ (n - 1), reconnectDelayCap)

\* mutant of attemptReconnect: the maximum is not checked
attemptReconnect_NoMaximum(r) ==
    IF r.isReconnecting THEN r
    ELSE IF r.intentionalDisconnect THEN r
    ELSE [r EXCEPT !.isReconnecting = TRUE,
                   !.reconnectAttempts = @ + 1,
                   !.reconnectTimeoutId = timerId(r),
                   !.timers = @ \cup {[id |-> timerId(r),
                                       delay |-> delayOf(r.reconnectAttempts + 1)]}]

\* mutant of attemptReconnect: the intentional-disconnect check is left out
attemptReconnect_NoIntentCheck(r) ==
    IF r.isReconnecting THEN r
    ELSE IF r.reconnectAttempts >= maxReconnectAttempts
    THEN [r EXCEPT !.isReconnecting = FALSE]
    ELSE [r EXCEPT !.isReconnecting = TRUE,
                   !.reconnectAttempts = @ + 1,
                   !.reconnectTimeoutId = timerId(r),
                   !.timers = @ \cup {[id |-> timerId(r),
                                       delay |-> delayOf(r.reconnectAttempts + 1)]}]

\* mutant of attemptReconnect: a pending attempt does not stop a second one
attemptReconnect_NoPendingCheck(r) ==
    IF r.intentionalDisconnect THEN r
    ELSE IF r.reconnectAttempts >= maxReconnectAttempts
    THEN [r EXCEPT !.isReconnecting = FALSE]
    ELSE [r EXCEPT !.isReconnecting = TRUE,
                   !.reconnectAttempts = @ + 1,
                   !.reconnectTimeoutId = timerId(r),
                   !.timers = @ \cup {[id |-> timerId(r),
                                       delay |-> delayOf(r.reconnectAttempts + 1)]}]

\* attemptReconnect() on the fields r
attemptReconnect(r) ==
    IF r.isReconnecting THEN r
    ELSE IF r.intentionalDisconnect THEN r
    ELSE IF r.reconnectAttempts >= maxReconnectAttempts
    THEN [r EXCEPT !.isReconnecting = FALSE]
    ELSE [r EXCEPT !.isReconnecting = TRUE,
                   !.reconnectAttempts = @ + 1,
                   !.reconnectTimeoutId = timerId(r),
                   !.timers = @ \cup {[id |-> timerId(r),
                                       delay |-> delayOf(r.reconnectAttempts + 1)]}]

\* the fields of attemptReconnect are set to r; a timer was scheduled exactly
\* when the attempt counter went up (scheduled counts no further than one
\* past maxReconnectAttempts)
SetReconnect(r) ==
    /\ reconnectAttempts' = r.reconnectAttempts
    /\ isReconnecting' = r.isReconnecting
    /\ intentionalDisconnect' = r.intentionalDisconnect
    /\ reconnectTimeoutId' = r.reconnectTimeoutId
    /\ timers' = r.timers
    /\ scheduled' = Min(scheduled + (r.reconnectAttempts - reconnectAttempts),
                        maxReconnectAttempts + 1)

\* the body of connect(): identity and token are read from localStorage and
\* a socket is created, unless new WebSocket throws
connectBody(throws) ==
    /\ identity' = storage.identity
    /\ token' = storage.token
    /\ IF throws THEN UNCHANGED <<socks, ws>>
       ELSE /\ Cardinality(DOMAIN alive(socks, 0)) < MaxSockets
            /\ ws' = socketId(alive(socks, 0))
            /\ socks' = [i \in DOMAIN alive(socks, 0) \cup {socketId(alive(socks, 0))} |->
                           IF i \in DOMAIN alive(socks, 0) THEN socks[i]
                           ELSE "connecting"]

\* isConnected()
isConnected == ws # 0 /\ socks[ws] = "open"

\* connect() called by the application: at start, and by loginUser and
\* registerUser when the client is not connected
Connect ==
    /\ ~isConnected
    /\ \E throws \in BOOLEAN : connectBody(throws)
    /\ intentionalDisconnect' = FALSE
    /\ userDisconnected' = FALSE
    /\ scheduled' = 0
    /\ lastStep' = Step("connect", << >>, << >>)
    /\ UNCHANGED <<reconnectAttempts, isReconnecting, reconnectTimeoutId, timers,
                   storage, subscriptionCounter>>
    /\ UNCHANGED <<cache, categoriesLoaded, registered, lastMsg, calls, handled>>
    /\ UNCHANGED <<decodeVars, gatewayVars, viewVars, asyncVars>>

\* the body of disconnect(): no reconnection any more, the pending timer is
\* cleared and the socket closed
disconnectBody ==
    /\ intentionalDisconnect' = TRUE
    /\ isReconnecting' = FALSE
    /\ IF reconnectTimeoutId # 0
       THEN /\ timers' = {t \in timers : t.id # reconnectTimeoutId}
            /\ reconnectTimeoutId' = 0
       ELSE UNCHANGED <<timers, reconnectTimeoutId>>
    /\ IF ws # 0
       THEN /\ socks' = alive([socks EXCEPT ![ws] = IF @ \in {"connecting", "open"}
                                                     THEN "closing" ELSE @], 0)
            /\ ws' = 0
       ELSE UNCHANGED <<socks, ws>>
    /\ reconnectAttempts' = 0
    /\ userDisconnected' = TRUE
    /\ scheduled' = 0

\* disconnect() called by the application
Disconnect ==
    /\ disconnectBody
    /\ lastStep' = Step("disconnect", notify("onDisconnect"), << >>)
    /\ UNCHANGED <<token, storage, subscriptionCounter>>
    /\ UNCHANGED mirrorVars
    /\ UNCHANGED <<decodeVars, gatewayVars, viewVars, asyncVars>>

\* the tables of the first subscription of ws.onopen ("SELECT * FROM <table>")
CategoryQuery == <<"category">>

\* the tables of its second subscription
RemainingQueries ==
    <<"user", "player", "room", "room_member", "room_invitation", "activity",
      "player_activity", "player_unlocked_activity", "room_activity",
      "activity_participant", "player_not_wanted_activity",
      "user_category_preference", "player_category_preference">>

\* mutant of SubscribeFrames: the counter is not advanced between the two calls
SubscribeFrames_SameId(sk, current, counter) ==
    IF current # 0 /\ sk[current] = "open"
    THEN <<[sock |-> current, queries |-> CategoryQuery, request_id |-> counter + 1],
           [sock |-> current, queries |-> RemainingQueries,
            request_id |-> counter + 1]>>
    ELSE << >>

\* the two sendSubscription calls of ws.onopen: each sends a frame on this.ws
\* if that socket is OPEN, and nothing otherwise
SubscribeFrames(sk, current, counter) ==
    IF current # 0 /\ sk[current] = "open"
    THEN <<[sock |-> current, queries |-> CategoryQuery, request_id |-> counter + 1],
           [sock |-> current, queries |-> RemainingQueries,
            request_id |-> counter + 2]>>
    ELSE << >>

\* ws.onopen of socket i
SocketOpen(i) ==
    /\ socks[i] = "connecting"
    /\ socks' = [socks EXCEPT ![i] = "open"]
    /\ reconnectAttempts' = 0
    /\ subscriptionCounter' =
          subscriptionCounter + Len(SubscribeFrames(socks', ws, subscriptionCounter))
    /\ subscriptionCounter' <= MaxRequestId
    /\ lastStep' = Step("open", notify("onConnect"),
                        SubscribeFrames(socks', ws, subscriptionCounter))
    /\ UNCHANGED <<ws, isReconnecting, intentionalDisconnect, reconnectTimeoutId,
                   timers, token, storage, scheduled, userDisconnected>>
    /\ UNCHANGED mirrorVars
    /\ UNCHANGED <<decodeVars, gatewayVars, viewVars, asyncVars>>

\* ws.onerror of socket i
SocketError(i) ==
    /\ socks[i] \in {"connecting", "open", "closing"}
    /\ lastStep' = Step("error", notify("onError"), << >>)
    /\ UNCHANGED <<socks, ws, reconnectAttempts, isReconnecting,
                   intentionalDisconnect, reconnectTimeoutId, timers,
                   token, storage, subscriptionCounter, scheduled, userDisconnected>>
    /\ UNCHANGED mirrorVars
    /\ UNCHANGED <<decodeVars, gatewayVars, viewVars, asyncVars>>

\* ws.onclose of socket i
SocketClose(i) ==
    /\ socks[i] \in {"connecting", "open", "closing"}
    /\ socks' = alive([socks EXCEPT ![i] = "closed"], ws)
    /\ SetReconnect(attemptReconnect(Reconnect))
    /\ lastStep' = Step("close", notify("onDisconnect"), << >>)
    /\ UNCHANGED <<ws, token, storage, subscriptionCounter, userDisconnected>>
    /\ UNCHANGED mirrorVars
    /\ UNCHANGED <<decodeVars, gatewayVars, viewVars, asyncVars>>

\* the callback of the reconnect timer t
TimerFire(t) ==
    /\ t \in timers
    /\ lastStep' = Step("timer", << >>, << >>)
    /\ \/ /\ intentionalDisconnect
          /\ isReconnecting' = FALSE
          /\ timers' = timers \ {t}
          /\ UNCHANGED <<socks, ws, identity, token, reconnectAttempts,
                         intentionalDisconnect, reconnectTimeoutId, scheduled>>
       \/ /\ ~intentionalDisconnect
          /\ connectBody(FALSE)
          /\ isReconnecting' = FALSE
          /\ timers' = timers \ {t}
          /\ UNCHANGED <<reconnectAttempts, intentionalDisconnect, reconnectTimeoutId,
                         scheduled>>
       \/ /\ ~intentionalDisconnect
          /\ connectBody(TRUE)
          /\ SetReconnect(attemptReconnect(
                [Reconnect EXCEPT !.isReconnecting = FALSE, !.timers = timers \ {t}]))
    /\ UNCHANGED <<storage, subscriptionCounter, userDisconnected>>
    /\ UNCHANGED <<cache, categoriesLoaded, registered, lastMsg, calls, handled>>
    /\ UNCHANGED <<decodeVars, gatewayVars, viewVars, asyncVars>>

\* two hexadecimal digits per byte
HexDigits ==
    <<"0", "1", "2", "3", "4", "5", "6", "7", "8", "9", "a", "b", "c", "d", "e", "f">>

RECURSIVE hexOf(_)
hexOf(bytes) ==
    IF bytes = << >> THEN ""
    ELSE HexDigits[(Head(bytes)[2] \div 16) + 1] \o HexDigits[(Head(bytes)[2] % 16) + 1]
            \o hexOf(Tail(bytes))

\* the identity handleIdentityToken stores for data.identity
identityOf(id) ==
    IF ~(IsPlainObject(id) \/ IsArray(id)) THEN id
    ELSE IF Truthy(Get(id, "__identity__")) THEN Get(id, "__identity__")
    ELSE IF Truthy(Get(id, "__identity_bytes"))
    THEN Str(hexOf(Get(id, "__identity_bytes")[2]))
    ELSE IF IsArray(id) THEN Str(hexOf(id[2]))
    ELSE JsonText(id)

\* the IdentityToken payloads a server sends
IdentityTokens ==
    {[identity |-> Str("ab12"), token |-> Str("tok")],
     [identity |-> Obj([k \in {"__identity__"} |-> Str("ab12")]), token |-> Str("tok")],
     [identity |-> Arr(<<Num(171), Num(18)>>), token |-> Str("tok")]}

\* mutant of setItem: the item is not written
setItem_NotWritten(old, v) == old

\* localStorage.setItem(key, v) on an item that held old: the item holds the
\* string of v
setItem(old, v) ==
    IF IsString(v) THEN v
    ELSE IF v = Null THEN Str("null")
    ELSE IF v = Undef THEN Str("undefined")
    ELSE JsonText(v)

\* handleIdentityToken(data), the message having arrived on socket i
HandleIdentityToken(i, data) ==
    /\ socks[i] = "open"
    /\ identity' = identityOf(data.identity)
    /\ token' = data.token
    /\ storage' = [identity |-> setItem(storage.identity, identityOf(data.identity)),
                   token |-> setItem(storage.token, data.token)]
    /\ reconnectAttempts' = 0
    /\ scheduled' = 0
    /\ lastStep' = Step("identity", << >>, << >>)
    /\ UNCHANGED <<socks, ws, isReconnecting, intentionalDisconnect,
                   reconnectTimeoutId, timers, subscriptionCounter,
                   userDisconnected>>
    /\ UNCHANGED <<cache, categoriesLoaded, registered, lastMsg, calls, handled>>
    /\ UNCHANGED <<decodeVars, gatewayVars, viewVars, asyncVars>>

\* ws.onmessage of socket i with an IdentityToken message
RecvIdentityToken(i) == \E data \in IdentityTokens : HandleIdentityToken(i, data)

ConnInit ==
    /\ MirrorIdle /\ DecodeIdle /\ ConnIdle /\ GatewayIdle /\ ViewIdle /\ AsyncIdle

ConnNext ==
    \/ Connect
    \/ Disconnect
    \/ \E i \in DOMAIN socks : SocketOpen(i)
    \/ \E i \in DOMAIN socks : SocketError(i)
    \/ \E i \in DOMAIN socks : SocketClose(i)
    \/ \E t \in timers : TimerFire(t)
    \/ \E i \in DOMAIN socks : RecvIdentityToken(i)

SpecConn == ConnInit /\ [][ConnNext]_vars

\* C3: the reconnect attempts scheduled since the last identity/token handshake
\* never exceed maxReconnectAttempts (scheduled also restarts at every explicit
\* connect() and disconnect())
C3_ScheduledWithinMaximum == scheduled <= maxReconnectAttempts

\* C4: the attempt counter goes back to zero only when an IdentityToken message
\* is received (or on disconnect()); a socket's open event leaves it unchanged
C4_OpenKeepsAttempts ==
    [][reconnectAttempts' < reconnectAttempts
          => lastStep'.op \in {"identity", "disconnect"}]_vars

\* the sockets of sk that are still connecting
connecting(sk) == {i \in DOMAIN sk : sk[i] = "connecting"}

\* C5: from disconnect() until the next explicit connect() no reconnect timer
\* is pending, and no step creates a socket or schedules a timer, whatever the
\* connection was doing when disconnect() was called
C5_DisconnectWins ==
    /\ [](userDisconnected => timers = {})
    /\ [][userDisconnected /\ userDisconnected'
             => /\ connecting(socks') \subseteq connecting(socks)
                /\ timers' \subseteq timers]_vars

\* C5 witness: a session that had completed its handshake was disconnected,
\* and the close event of a socket has been handled since
C5_Witness ==
    /\ userDisconnected
    /\ lastStep.op = "close"
    /\ storage.token # Null

-----------------------------------------------------------------------------
(* The net effect of a batch on a store.                                   *)

\* the store a batch implies: the ids of the deletes removed, then the last
\* decodable insert of each id stored under it
netEffect(store, tu) ==
    LET t == tu.table_name
        gone == decodedIds(t, allDeletes(tu))
        put == decodedIds(t, allInserts(tu))
    IN [id \in (DOMAIN store \ gone) \cup put |->
           IF id \in put THEN lastWithId(t, allInserts(tu), id) ELSE store[id]]

\* C11: after applyTableUpdate the store is the former store without the ids
\* of the deletes and with the last decodable insert of every inserted id;
\* the other rows, and the other tables, are unchanged, and every row is
\* stored under its own id
C11_StoreIsNetEffect ==
    [][handled' = handled + 1 =>
          LET tu == lastMsg'.tables[1]
          IN /\ \A t \in TableSet :
                   cache'[t] = IF t = tu.table_name THEN netEffect(cache[t], tu)
                               ELSE cache[t]
             /\ \A t \in TableSet : \A id \in DOMAIN cache'[t] :
                   Get(cache'[t][id], "id") = id]_vars

\* C11 witness: a batch that inserts two different rows of one id has been
\* applied to a store that held another id, and the store holds the second row
C11_Witness ==
    /\ lastMsg # << >>
    /\ lastMsg.tables[1].table_name = "player"
    /\ Len(allInserts(lastMsg.tables[1])) = 2
    /\ decodedIds("player", allInserts(lastMsg.tables[1])) = {Num(1)}
    /\ allInserts(lastMsg.tables[1])[1] # allInserts(lastMsg.tables[1])[2]
    /\ DOMAIN cache["player"] = {Num(1), Num(2)}
    /\ cache["player"][Num(1)]
          = parseRow("player", allInserts(lastMsg.tables[1])[2])

-----------------------------------------------------------------------------
(* Bad-row harness: one message of two table updates, the first with rows  *)
(* that do not decode among rows that do.                                  *)

DropTables == {"player", "room_member"}

\* rows that do not decode to a record with an id: text that is no JSON, JSON
\* text of an empty object, an empty array, an empty object, null
UndecodableRows == BadRows \cup {JsonText(EmptyObj), EmptyObj, Null}

DropOps(tableName, shape) ==
    {[op |-> "insert", row |-> ApplyRow(tableName, i, "new", shape)] : i \in ApplyIds}
    \cup {[op |-> "delete", row |-> ApplyRow(tableName, i, "old", shape)] :
            i \in ApplyIds}
    \cup {[op |-> o, row |-> r] : o \in {"insert", "delete"}, r \in UndecodableRows}

DropInit ==
    /\ \E t \in DropTables : \E store \in ApplySeeds(t) :
          cache = [EmptyCache EXCEPT ![t] = store]
    /\ categoriesLoaded = FALSE
    /\ registered = Observers
    /\ identity = Null /\ lastMsg = << >> /\ calls = << >> /\ handled = 0
    /\ DecodeIdle /\ ConnIdle /\ GatewayIdle /\ ViewIdle /\ AsyncIdle

\* one inbound message: a table update for the table the store is of, then a
\* table update that inserts one row, into that table or into another one
DropBatch ==
    /\ handled = 0
    /\ \E t \in DropTables, u \in DropTables :
         /\ \A v \in TableSet \ {t} : DOMAIN cache[v] = {}
         /\ \E fmt \in Formats, layout \in Layouts :
              \E ops \in OpSeqs(DropOps(t, fmt[2])) :
                /\ HandleMessage(Message(fmt[1],
                      <<TableUpdate(t, ops, layout),
                        TableUpdate(u, <<[op |-> "insert",
                                          row |-> ApplyRow(u, 2, "last", fmt[2])]>>,
                                    "top")>>))
                /\ UNCHANGED <<decodeVars, connVars, gatewayVars, viewVars, asyncVars>>

DropNext == DropBatch

SpecDrop == DropInit /\ [][DropNext]_vars

\* the rows of a list without the undecodable ones
decodable(rows) == SelectSeq(rows, LAMBDA r : r \notin UndecodableRows)

\* a table update without its undecodable rows
withoutBadRows(tu) ==
    [table_name |-> tu.table_name,
     inserts |-> decodable(tu.inserts), deletes |-> decodable(tu.deletes),
     updates |-> [i \in 1..Len(tu.updates) |->
                    [inserts |-> decodable(tu.updates[i].inserts),
                     deletes |-> decodable(tu.updates[i].deletes)]]]

\* C12: a row that does not decode, or decodes without an id, changes nothing:
\* the mirror after the message is the mirror the message without those rows
\* leaves, every other row and the later table update applied
C12_BadRowsDropped ==
    [][handled' = handled + 1 =>
          cache' = applyToCache(applyToCache(cache, withoutBadRows(lastMsg'.tables[1])),
                                withoutBadRows(lastMsg'.tables[2]))]_vars

\* C12 witness: a batch whose first insert is text that is no JSON and whose
\* second insert decodes has been applied, and so has the later table update
C12_Witness ==
    /\ lastMsg # << >>
    /\ lastMsg.tables[1].table_name = "player"
    /\ lastMsg.tables[2].table_name = "room_member"
    /\ Len(allInserts(lastMsg.tables[1])) = 2
    /\ allInserts(lastMsg.tables[1])[1] = Str("not json")
    /\ DOMAIN cache["player"] = {Num(1)}
    /\ Get(cache["player"][Num(1)], "userId") = Str("new")
    /\ DOMAIN cache["room_member"] = {Num(2)}

-----------------------------------------------------------------------------
(* The reducer gateway: callReducer.                                       *)

ReducerNames == {"login_user", "award_xp"}

\* the args of a call: an array, or an object of named arguments (one key)
ReducerArgs == {Arr(<<Str("u"), Num(5)>>), Obj([player_id |-> Num(5)])}

\* Array.isArray(args) ? args : Object.values(args)
argsArray(args) ==
    IF IsArray(args) THEN args
    ELSE Arr(SetToSeq({args[2][k] : k \in DOMAIN args[2]}))

\* the headers of the request: the token and the identity when they are set
requestHeaders(tok, ident) ==
    [contentType |-> Str("application/json"),
     authorization |-> IF Truthy(tok) THEN Str("Bearer " \o tok[2]) ELSE Undef,
     identity |-> IF Truthy(ident) THEN ident ELSE Undef]

\* the response bodies: empty, JSON text, text that is no JSON
ResponseTexts == {Str(""), JsonText(Obj([id |-> Num(1)])), Str("no such user")}

\* what fetch does: it fails (the promise rejects), or it resolves to a response
\* with a status, a body and the two identity headers (null when absent)
Responses ==
    {[failed |-> TRUE, ok |-> FALSE, text |-> Str(""),
      newIdentity |-> Null, newToken |-> Null]}
    \cup [failed : {FALSE}, ok : BOOLEAN, text : ResponseTexts,
          newIdentity : {Null, Str("cd34")}, newToken : {Null, Str("tok2")}]

\* mutant of reducerOutcome: a non-success status is thrown
reducerOutcome_ThrowsOnStatus(reducerName, response) ==
    IF response.failed \/ ~response.ok
    THEN [outcome |-> "thrown", value |-> Str("Error")]
    ELSE IF Truthy(response.text) /\ ~jsonParses(response.text)
    THEN [outcome |-> "thrown", value |-> Str("SyntaxError")]
    ELSE [outcome |-> "returned",
          value |-> Obj([ok |-> Bool(TRUE),
                         data |-> IF Truthy(response.text) THEN response.text[2]
                                  ELSE Null])]

\* mutant of reducerOutcome: the body is parsed even when it is empty
reducerOutcome_ParsesEmpty(reducerName, response) ==
    IF response.failed
    THEN [outcome |-> "thrown", value |-> Str("TypeError")]
    ELSE IF ~response.ok
    THEN [outcome |-> "returned",
          value |-> Obj([ok |-> Bool(FALSE),
                         error |-> OrElse(response.text,
                                          Str("Reducer " \o reducerName \o " failed"))])]
    ELSE IF ~Truthy(response.text) \/ ~jsonParses(response.text)
    THEN [outcome |-> "thrown", value |-> Str("SyntaxError")]
    ELSE [outcome |-> "returned",
          value |-> Obj([ok |-> Bool(TRUE), data |-> response.text[2]])]

\* how callReducer ends: the value its promise resolves to, or the exception
\* it rejects with
reducerOutcome(reducerName, response) ==
    IF response.failed
    THEN [outcome |-> "thrown", value |-> Str("TypeError")]
    ELSE IF ~response.ok
    THEN [outcome |-> "returned",
          value |-> Obj([ok |-> Bool(FALSE),
                         error |-> OrElse(response.text,
                                          Str("Reducer " \o reducerName \o " failed"))])]
    ELSE IF Truthy(response.text) /\ ~jsonParses(response.text)
    THEN [outcome |-> "thrown", value |-> Str("SyntaxError")]
    ELSE [outcome |-> "returned",
          value |-> Obj([ok |-> Bool(TRUE),
                         data |-> IF Truthy(response.text) THEN response.text[2]
                                  ELSE Null])]

\* mutant of rotated: the headers of the response are not read
rotated_Kept(old, header) == old

\* a header of the response replaces the field and its localStorage item
rotated(old, header) == IF Truthy(header) THEN header ELSE old

\* the call as rpc records it: the request callReducer sends with the token tok
\* and the identity ident, the response, and how the call ends
reducerCall(reducerName, args, response, tok, ident) ==
    [name |-> reducerName,
     path |-> "/call/" \o reducerName,
     headers |-> requestHeaders(tok, ident),
     body |-> JsonText(argsArray(args)),
     response |-> response,
     result |-> reducerOutcome(reducerName, response)]

\* callReducer(reducerName, args), the server answering with response
callReducer(reducerName, args, response) ==
    /\ rpc' = reducerCall(reducerName, args, response, token, identity)
    /\ identity' = rotated(identity, response.newIdentity)
    /\ token' = rotated(token, response.newToken)
    /\ storage' = [identity |-> rotated(storage.identity, response.newIdentity),
                   token |-> rotated(storage.token, response.newToken)]
    /\ UNCHANGED <<cache, categoriesLoaded, registered, lastMsg, calls, handled>>
    /\ UNCHANGED <<socks, ws, reconnectAttempts, isReconnecting,
                   intentionalDisconnect, reconnectTimeoutId, timers,
                   subscriptionCounter, lastStep, scheduled, userDisconnected>>
    /\ UNCHANGED <<decodeVars, viewVars, asyncVars>>

\* the application calls a reducer
CallReducer ==
    \E reducerName \in ReducerNames, args \in ReducerArgs, response \in Responses :
       callReducer(reducerName, args, response)

ReducerInit ==
    /\ MirrorIdle /\ DecodeIdle /\ ConnIdle /\ GatewayIdle /\ ViewIdle /\ AsyncIdle

ReducerNext == CallReducer

SpecReducer == ReducerInit /\ [][ReducerNext]_vars

\* C13: a call the server answers with a non-success status returns
\* {ok: false, error}, error being the response body, or "Reducer <name> failed"
\* when the body is empty; it does not throw
C13_StatusIsReturned ==
    (rpc # << >> /\ ~rpc.response.failed /\ ~rpc.response.ok) =>
        /\ rpc.result.outcome = "returned"
        /\ rpc.result.value =
              Obj([ok |-> Bool(FALSE),
                   error |-> IF rpc.response.text = Str("")
                             THEN Str("Reducer " \o rpc.name \o " failed")
                             ELSE rpc.response.text])

\* C13 witness: a non-success response with an empty body was answered with
\* the default message
C13_Witness ==
    /\ rpc # << >>
    /\ ~rpc.response.failed /\ ~rpc.response.ok
    /\ rpc.response.text = Str("")
    /\ Get(rpc.result.value, "error") = Str("Reducer award_xp failed")

\* C14: a call whose request fails at transport level returns {ok: false,
\* error}; it does not throw
C14_TransportIsReturned ==
    (rpc # << >> /\ rpc.response.failed) =>
        /\ rpc.result.outcome = "returned"
        /\ Get(rpc.result.value, "ok") = Bool(FALSE)

-----------------------------------------------------------------------------
(* Giving up.                                                              *)

\* a close event handled when the retry budget is exhausted: attemptReconnect
\* takes its "giving up" branch
GiveUpClose ==
    /\ lastStep'.op = "close"
    /\ ~isReconnecting /\ ~intentionalDisconnect
    /\ reconnectAttempts >= maxReconnectAttempts

-----------------------------------------------------------------------------
(* Subscriptions.                                                          *)

\* the socket whose open event the step handles
opened == CHOOSE i \in DOMAIN socks : socks[i] = "connecting" /\ socks'[i] = "open"

\* C16: the open event of a socket sends exactly two Subscribe frames on that
\* socket: first the category table alone, then the 13 other tables
C16_TwoSubscriptionsPerOpen ==
    [][lastStep'.op = "open" =>
          /\ Len(lastStep'.frames) = 2
          /\ lastStep'.frames[1].queries = <<"category">>
          /\ {lastStep'.frames[2].queries[i] : i \in 1..Len(lastStep'.frames[2].queries)}
                = TableSet \ {"category"}
          /\ Len(lastStep'.frames[2].queries) = 13
          /\ lastStep'.frames[1].sock = opened
          /\ lastStep'.frames[2].sock = opened]_vars

\* C17: the request_id of every Subscribe frame sent is greater than that of
\* every frame sent before: the frames of a step carry increasing ids above the
\* counter, the counter ends at the last of them, and it never goes down
C17_RequestIdsIncrease ==
    [][/\ subscriptionCounter' >= subscriptionCounter
       /\ \A i \in 1..Len(lastStep'.frames) :
             /\ lastStep'.frames[i].request_id > subscriptionCounter
             /\ lastStep'.frames[i].request_id <= subscriptionCounter'
             /\ \A j \in 1..(i - 1) :
                   lastStep'.frames[j].request_id < lastStep'.frames[i].request_id]_vars

\* C17 witness: two frames were sent before, and the open event of another
\* socket has sent the next two
C17_Witness ==
    /\ lastStep.op = "open"
    /\ Len(lastStep.frames) = 2
    /\ lastStep.frames[1].request_id = 3
    /\ lastStep.frames[2].request_id = 4
    /\ subscriptionCounter = 4

-----------------------------------------------------------------------------
(* The reconnect delay.                                                    *)

\* min(base * 2^(n-1), cap) for the configured base and cap
backoff(n) ==
    IF reconnectDelay * 2 ^ (n - 1) <= reconnectDelayCap
    THEN reconnectDelay * 2 ^ (n - 1) ELSE reconnectDelayCap

\* C18: the timer scheduled for reconnect attempt n has the delay
\* min(base * 2^(n-1), cap); it is not above the cap and not below the delay
\* of any earlier attempt
C18_DelayIsCappedBackoff ==
    [][\A t \in timers' \ timers :
          /\ t.delay = backoff(reconnectAttempts')
          /\ t.delay <= reconnectDelayCap
          /\ \A m \in 1..(reconnectAttempts' - 1) : backoff(m) <= t.delay]_vars

\* C18 witness: the timer of the third attempt is pending
C18_Witness ==
    /\ reconnectAttempts = 3
    /\ isReconnecting
    /\ \E t \in timers : t.id = reconnectTimeoutId /\ t.delay = 30000

-----------------------------------------------------------------------------
(* The unwrap primitive, on every field parseRow applies it to.            *)

\* [0, value] is value, [1, _] is null, [x] is x
unwrapped(v) ==
    IF IsArray(v) /\ Len(v[2]) = 2 /\ v[2][1] = Num(0) THEN v[2][2]
    ELSE IF IsArray(v) /\ Len(v[2]) = 2 /\ v[2][1] = Num(1) THEN Null
    ELSE IF IsArray(v) /\ Len(v[2]) = 1 THEN v[2][1]
    ELSE v

\* the same, and the two object forms: an identity object is its __identity__,
\* a timestamp object its __timestamp_micros_since_unix_epoch__
unwrappedOrInner(v) ==
    IF IsPlainObject(v) /\ DOMAIN v[2] = {"__identity__"} THEN v[2]["__identity__"]
    ELSE IF IsPlainObject(v) /\ DOMAIN v[2] = {"__timestamp_micros_since_unix_epoch__"}
    THEN v[2]["__timestamp_micros_since_unix_epoch__"]
    ELSE unwrapped(v)

\* the field of the decoded row that carries the wire form, when parseRow
\* applies unwrap to it in that row shape (3: keyed, 4: positional)
unwrapsField(shape) == Schema(decIn.table)[decIn.field][shape] = "unwrap"

decodedField(out) == Get(out, Schema(decIn.table)[decIn.field][1])

\* C19 as stated: on every field unwrap is applied to, [0, value] decodes to
\* value, [1, _] to null, a 1-element sequence to its element, and any other
\* value is returned unchanged
C19_UnwrapOnlySequences ==
    decOut # << >> =>
        /\ unwrapsField(4) => decodedField(decOut.pos) = unwrapped(decIn.form)
        /\ unwrapsField(3) => decodedField(decOut.obj) = unwrapped(decIn.form)

\* C19 amended: the same, except that an identity object decodes to its
\* __identity__ and a timestamp object to its microsecond count
C19_UnwrapSequencesAndObjects ==
    decOut # << >> =>
        /\ unwrapsField(4) => decodedField(decOut.pos) = unwrappedOrInner(decIn.form)
        /\ unwrapsField(3) => decodedField(decOut.obj) = unwrappedOrInner(decIn.form)

\* C19 witness: a 1-element sequence in a field that both row shapes unwrap
\* has been decoded to its element
C19_Witness ==
    /\ decOut # << >>
    /\ decIn.table = "user" /\ decIn.field = 2
    /\ decIn.form = Arr(<<Str("v")>>)
    /\ Get(decOut.pos, "identity") = Str("v")
    /\ Get(decOut.obj, "identity") = Str("v")

-----------------------------------------------------------------------------
(* The sum-typed fields.                                                   *)

\* the variants of each sum type, in ordinal order, and its default name
Variants(how) ==
    CASE how = "role" -> <<"Top", "Bottom", "Observer", "Photographer", "ActivityAdmin">>
      [] how = "kind" -> <<"Skill", "Activity">>
      [] how = "activityStatus" -> <<"Locked", "Available", "Completed">>
      [] how = "roomActivityStatus" -> <<"Viewing", "InProgress", "Completed", "Cancelled">>
      [] OTHER -> << >>

DefaultName(how) ==
    CASE how = "role" -> "Observer"
      [] how = "kind" -> "Activity"
      [] how = "activityStatus" -> "Available"
      [] how = "roomActivityStatus" -> "Viewing"
      [] OTHER -> ""

\* the name a wire form of a sum-typed field stands for: the variant of the
\* ordinal, of the single key or of the string, and the default for a form
\* that is none of these
variantOf(how, form) ==
    LET V == Variants(how)
    IN IF \E k \in 1..Len(V) : form \in {Arr(<<Num(k - 1), EmptyObj>>),
                                          Obj([n \in {V[k]} |-> EmptyObj]),
                                          Str(V[k])}
       THEN Str(V[CHOOSE k \in 1..Len(V) :
                     form \in {Arr(<<Num(k - 1), EmptyObj>>),
                               Obj([n \in {V[k]} |-> EmptyObj]),
                               Str(V[k])}])
       ELSE Str(DefaultName(how))

\* the wire forms the statement is about: the three encodings of a variant of
\* the field's type, and forms that match nothing
variantForms(how) ==
    {Null, Arr(<<Num(9), EmptyObj>>)}
    \cup UNION {{Arr(<<Num(k - 1), EmptyObj>>),
                 Obj([n \in {Variants(how)[k]} |-> EmptyObj]),
                 Str(Variants(how)[k])} : k \in 1..Len(Variants(how))}

\* C20: in every sum-typed field, the encodings [ordinal, payload],
\* {VariantName: payload} and VariantName of a variant decode to its name,
\* and a form matching none decodes to the default name of the field
C20_VariantsDecodeToName ==
    decOut # << >> =>
        \A shape \in {3, 4} :
            LET how == Schema(decIn.table)[decIn.field][shape]
            IN (Variants(how) # << >> /\ decIn.form \in variantForms(how)) =>
                  decodedField(IF shape = 3 THEN decOut.obj ELSE decOut.pos)
                     = variantOf(how, decIn.form)

-----------------------------------------------------------------------------
(* The session identity and the current user.                              *)

UpperCase == "ABCDEFGHIJKLMNOPQRSTUVWXYZ"
LowerCase == "abcdefghijklmnopqrstuvwxyz"

\* String.prototype.toLowerCase, on the letters A to Z
RECURSIVE toLowerCase(_)
toLowerCase(s) ==
    IF s = "" THEN ""
    ELSE (IF \E i \in 1..Len(UpperCase) : SubSeq(UpperCase, i, i) = SubSeq(s, 1, 1)
          THEN LET i == CHOOSE j \in 1..Len(UpperCase) :
                           SubSeq(UpperCase, j, j) = SubSeq(s, 1, 1)
               IN SubSeq(LowerCase, i, i)
          ELSE SubSeq(s, 1, 1))
         \o toLowerCase(SubSeq(s, 2, Len(s)))

\* s.replace(pattern, ''): the first occurrence of the pattern is removed
removeFirst(s, pattern) ==
    LET at == {i \in 1..(Len(s) - Len(pattern) + 1) :
                  SubSeq(s, i, i + Len(pattern) - 1) = pattern}
    IN IF at = {} THEN s
       ELSE LET i == CHOOSE j \in at : \A k \in at : j <= k
            IN SubSeq(s, 1, i - 1) \o SubSeq(s, i + Len(pattern), Len(s))

\* x.replace('0x', '').toLowerCase() of a string value
identityHex(v) == toLowerCase(removeFirst(v[2], "0x"))

\* getUserFromCache(): the user row whose identity is the session identity
\* once both have lost their first "0x" and are in lower case, or null
getUserFromCache(c, ident) ==
    LET matching == {u \in Values(c["user"]) :
                        identityHex(OrElse(Get(u, "identity"), Str("")))
                            = identityHex(ident)}
    IN IF ~Truthy(ident) \/ matching = {} THEN Null
       ELSE CHOOSE u \in matching : TRUE

\* the texts an identity arrives as
IdentityTexts == {"ab12", "0xab12", "0xAB12", "cd34"}

\* the IdentityToken payloads of the session harness
MarkedToken == [identity |-> Obj([k \in {"__identity__"} |-> Str("0xAB12")]),
                token |-> Str("tok")]

SessionTokens ==
    IdentityTokens \cup {MarkedToken}
       \cup {[identity |-> Str(t), token |-> Str("tok")] : t \in IdentityTexts}

\* a user row as the server sends it, its identity wrapped in an array
UserRow(id, text) ==
    Encode("user", RowValues("user", [id |-> Num(id),
                                      identity |-> Arr(<<Str(text)>>)]),
           "positional")

\* a connected client whose subscriptions have mirrored the user table: user 1
\* and user 2, each absent or with one of the identity texts
SessionInit ==
    /\ \E users \in SUBSET ({1, 2} \X IdentityTexts) :
          /\ \A u, v \in users : u[1] = v[1] => u = v
          /\ cache = [EmptyCache EXCEPT
                        !["user"] = insertRows(EmptyMap, "user",
                                       SetToSeq({UserRow(u[1], u[2]) : u \in users}))]
    /\ categoriesLoaded = FALSE /\ registered = Observers
    /\ identity = Null /\ lastMsg = << >> /\ calls = << >> /\ handled = 0
    /\ socks = [i \in {1} |-> "open"] /\ ws = 1
    /\ reconnectAttempts = 0 /\ isReconnecting = FALSE
    /\ intentionalDisconnect = FALSE /\ reconnectTimeoutId = 0 /\ timers = {}
    /\ token = Null /\ storage = [identity |-> Null, token |-> Null]
    /\ subscriptionCounter = 2
    /\ lastStep = Step("open", notify("onConnect"), SubscribeFrames(socks, 1, 0))
    /\ scheduled = 0 /\ userDisconnected = FALSE
    /\ DecodeIdle /\ GatewayIdle /\ ViewIdle /\ AsyncIdle

\* the IdentityToken message of the session arrives
SessionHandshake == \E data \in SessionTokens : HandleIdentityToken(1, data)

SessionNext == SessionHandshake

SpecSession == SessionInit /\ [][SessionNext]_vars

\* C21: the identity {"__identity__": "0xAB12"} of an IdentityToken message is
\* stored, in memory and in localStorage, as "ab12"
C21_IdentityStoredAsPlainHex ==
    [][HandleIdentityToken(1, MarkedToken)
          => identity' = Str("ab12") /\ storage'.identity = Str("ab12")]_vars

\* C22: for every mirror and every session identity, getUserFromCache and
\* getCurrentUser return the same row: the user whose identity is the session
\* identity without regard to letter case or a leading "0x", or none
C22_ResolversAgree ==
    getCurrentUser(cache, identity) = getUserFromCache(cache, identity)

-----------------------------------------------------------------------------
(* The derivations as calls: a mirror of a small world, on which one       *)
(* derivation is called twice in a row.                                    *)

\* getUnlockedActivities(playerId)
getUnlockedActivities(c, playerId) ==
    {ua \in Values(c["player_unlocked_activity"]) : Get(ua, "playerId") = playerId}

\* getNewUnlockedActivities(playerId)
getNewUnlockedActivities(c, playerId) ==
    {ua \in getUnlockedActivities(c, playerId) : Truthy(Get(ua, "isNew"))}

\* mutant of getRoomActivity: the status of the room activity is not looked at
getRoomActivity_AnyStatus(c, roomId) ==
    LET active == {ra \in Values(c["room_activity"]) : Get(ra, "roomId") = roomId}
    IN IF active = {} THEN Null
       ELSE <<"entry", activeEntry(c, CHOOSE ra \in active : TRUE)>>

\* getRoomActivity(roomId): the entry of a room activity of the room that is
\* being viewed or in progress (the first one in the order of the Map) as
\* <<"entry", e>>, or null
getRoomActivity(c, roomId) ==
    LET active == {ra \in Values(c["room_activity"]) :
                      /\ Get(ra, "roomId") = roomId
                      /\ Get(ra, "status") \in {Str("Viewing"), Str("InProgress")}}
    IN IF active = {} THEN Null
       ELSE <<"entry", activeEntry(c, CHOOSE ra \in active : TRUE)>>

\* the derivations, each with its argument
Queries ==
    ({"getRoomAvailableActivities", "getRoomActivity", "getUnlockedActivities",
      "getNewUnlockedActivities"} \X {1, 2})
    \cup ({"getCurrentUser", "getUserFromCache", "notifyRoomMembersUpdate",
           "notifyRoomActivityUpdate", "notifyUnlockedActivitiesUpdate",
           "notifyPreferencesUpdate", "notifyRoomAvailableActivitiesUpdate"} \X {0})

\* what the derivation q returns, or the observer calls it makes: a list of
\* rows or entries, an entry, a row, null, or a sequence of calls
queryResult(c, reg, ident, q) ==
    CASE q[1] = "getRoomAvailableActivities" ->
            <<"list", getRoomAvailableActivities(c, Num(q[2]))>>
      [] q[1] = "getRoomActivity" -> getRoomActivity(c, Num(q[2]))
      [] q[1] = "getUnlockedActivities" ->
            <<"list", getUnlockedActivities(c, Num(q[2]))>>
      [] q[1] = "getNewUnlockedActivities" ->
            <<"list", getNewUnlockedActivities(c, Num(q[2]))>>
      [] q[1] = "getCurrentUser" -> getCurrentUser(c, ident)
      [] q[1] = "getUserFromCache" -> getUserFromCache(c, ident)
      [] q[1] = "notifyRoomMembersUpdate" ->
            <<"calls", notifyRoomMembersUpdate(c, reg)>>
      [] q[1] = "notifyRoomActivityUpdate" ->
            <<"calls", notifyRoomActivityUpdate(c, reg)>>
      [] q[1] = "notifyUnlockedActivitiesUpdate" ->
            <<"calls", notifyUnlockedActivitiesUpdate(c, reg)>>
      [] q[1] = "notifyPreferencesUpdate" ->
            <<"calls", notifyPreferencesUpdate(c, reg, ident)>>
      [] q[1] = "notifyRoomAvailableActivitiesUpdate" ->
            <<"calls", notifyRoomAvailableActivitiesUpdate(c, reg)>>

\* mutant of queryCall: reading the new unlocked activities marks them as seen
queryCall_Acknowledges(c, reg, ident, q) ==
    [cache |-> IF q[1] = "getNewUnlockedActivities"
               THEN [c EXCEPT !["player_unlocked_activity"] =
                       [k \in DOMAIN @ |->
                          Obj([f \in DOMAIN @[k][2] |->
                                 IF f = "isNew" THEN Bool(FALSE) ELSE @[k][2][f]])]]
               ELSE c,
     result |-> queryResult(c, reg, ident, q)]

\* a call of the derivation q: the cache it leaves, which no derivation writes
\* to, and its result
queryCall(c, reg, ident, q) ==
    [cache |-> c, result |-> queryResult(c, reg, ident, q)]

\* wire rows of the tables the room-activity views read
UnlockedRowWith(player, activity, isNew) ==
    Encode("player_unlocked_activity",
           RowValues("player_unlocked_activity",
                     [id |-> Num(10 * player + activity), playerId |-> Num(player),
                      activityId |-> Num(activity),
                      kind |-> Arr(<<Num(1), EmptyObj>>), isNew |-> Bool(isNew)]),
           "keyed")

RoomActivityRow(id, room, activity, status) ==
    Encode("room_activity",
           RowValues("room_activity",
                     [id |-> Num(id), roomId |-> Num(room), activityId |-> Num(activity),
                      status |-> Arr(<<Num(status), EmptyObj>>)]),
           "positional")

ParticipantRow(id, roomActivity, player) ==
    Encode("activity_participant",
           RowValues("activity_participant",
                     [id |-> Num(id), roomActivityId |-> Num(roomActivity),
                      playerId |-> Num(player)]),
           "positional")

MaxRoomActivities == 2

\* <<id, room, activity, status ordinal>>
RoomActivityPool ==
    {<<1, 1, 1, 0>>, <<2, 1, 1, 2>>, <<3, 2, 2, 1>>, <<4, 1, 2, 3>>}

\* the mirrors of the small world: player 1, or players 1 and 2, are members of
\* room 1, with or without their player rows, and take part in room activity 1
\* or nobody does; both have activity 1 unlocked, player 1 also
\* activity 2; activity 1 is of category 1 and activity 2 of category 2, each
\* row mirrored or not; category 2 has no row
ViewSeed ==
    \E members \in {{<<1, 1>>}, {<<1, 1>>, <<1, 2>>}},
       players \in SUBSET {1, 2},
       activities \in SUBSET {<<1, 1>>, <<2, 2>>},
       categories \in SUBSET {1},
       ras \in UpTo(RoomActivityPool, MaxRoomActivities),
       aps \in {{}, {<<1, 1, 1>>, <<2, 1, 2>>}} :
         cache = [Mirror(members, players, {}, {},
                         {<<1, 1>>, <<1, 2>>, <<2, 1>>, <<2, 2>>},
                         activities, categories)
                    EXCEPT
                      !["player_unlocked_activity"] =
                          insertRows(EmptyMap, "player_unlocked_activity",
                              <<UnlockedRowWith(1, 1, TRUE), UnlockedRowWith(1, 2, FALSE),
                                UnlockedRowWith(2, 1, FALSE)>>),
                      !["room_activity"] =
                          insertRows(EmptyMap, "room_activity",
                              SetToSeq({RoomActivityRow(r[1], r[2], r[3], r[4]) :
                                          r \in ras})),
                      !["activity_participant"] =
                          insertRows(EmptyMap, "activity_participant",
                              SetToSeq({ParticipantRow(a[1], a[2], a[3]) : a \in aps})),
                      !["user"] =
                          insertRows(EmptyMap, "user", <<UserRow(1, "ab12")>>)]

ViewInit ==
    /\ ViewSeed
    /\ categoriesLoaded = TRUE /\ registered = Observers
    /\ identity = Str("ab12") /\ lastMsg = << >> /\ calls = << >> /\ handled = 0
    /\ DecodeIdle /\ ConnIdle /\ GatewayIdle /\ ViewIdle /\ AsyncIdle

\* the application calls one derivation, and once more at once
Query ==
    /\ view = << >>
    /\ \E q \in Queries :
       LET first == queryCall(cache, registered, identity, q)
           second == queryCall(first.cache, registered, identity, q)
       IN /\ cache' = second.cache
          /\ view' = [query |-> q, first |-> first.result, second |-> second.result]
          /\ UNCHANGED <<categoriesLoaded, registered, identity, lastMsg, calls, handled>>
          /\ UNCHANGED <<decodeVars, connVars, gatewayVars, asyncVars>>

ViewNext == Query

SpecView == ViewInit /\ [][ViewNext]_vars

-----------------------------------------------------------------------------
(* The life of the stores: a logged-in, connected client with a mirror, on *)
(* which the application calls reducers, logs out, disconnects and         *)
(* connects, while the server delivers table updates.                      *)

\* mutant of logoutStores: the user table is kept
logoutStores_KeepsUsers(c) ==
    [t \in DOMAIN c |-> IF t = "user" THEN c[t] ELSE EmptyMap]

\* the stores after the loop "for (const cache of ...) cache.clear()"
logoutStores(c) == [t \in DOMAIN c |-> EmptyMap]

\* logoutUser(): callReducer('logout_user', []) and, once it has returned, the
\* clearing of the session, of the stores and of the connection; when the call
\* throws, logoutUser throws at once
logoutUser(response) ==
    \E call \in {reducerCall("logout_user", EmptyArr, response, token, identity)} :
       /\ rpc' = call
       /\ IF call.result.outcome = "thrown"
          THEN /\ identity' = rotated(identity, response.newIdentity)
               /\ token' = rotated(token, response.newToken)
               /\ storage' = [identity |-> rotated(storage.identity, response.newIdentity),
                              token |-> rotated(storage.token, response.newToken)]
               /\ UNCHANGED <<cache, socks, ws, reconnectAttempts, isReconnecting,
                              intentionalDisconnect, reconnectTimeoutId, timers,
                              lastStep, scheduled, userDisconnected>>
          ELSE /\ identity' = Null
               /\ token' = Null
               /\ storage' = [identity |-> Null, token |-> Null]
               /\ cache' = logoutStores(cache)
               /\ disconnectBody
               /\ lastStep' = Step("logout", notify("onDisconnect"), << >>)
       /\ UNCHANGED <<categoriesLoaded, registered, lastMsg, calls, handled>>
       /\ UNCHANGED subscriptionCounter
       /\ UNCHANGED <<decodeVars, viewVars, asyncVars>>

\* logoutUser() called by the application, whatever fetch does
LogoutUser == \E response \in Responses : logoutUser(response)

\* leaveRoom(playerId, roomId), a reducer wrapper: it returns what
\* callReducer('leave_room', [playerId, roomId]) returns
LeaveRoom ==
    \E response \in Responses :
       callReducer("leave_room", Arr(<<Num(1), Num(1)>>), response)

MaxDeliveries == 1

\* the table updates the server delivers: a player row appears, user 1 goes
Deliveries ==
    {Message("TransactionUpdate",
             <<[table_name |-> "player", inserts |-> <<PlayerRow(3, "positional")>>,
                deletes |-> << >>, updates |-> << >>]>>),
     Message("SubscriptionUpdate",
             <<[table_name |-> "user", inserts |-> << >>,
                deletes |-> <<UserRow(1, "ab12")>>, updates |-> << >>]>>)}

\* ws.onmessage of an open socket with table updates
Deliver ==
    /\ handled < MaxDeliveries
    /\ \E i \in DOMAIN socks : socks[i] = "open"
    /\ \E msg \in Deliveries : HandleMessage(msg)
    /\ UNCHANGED <<decodeVars, connVars, gatewayVars, viewVars, asyncVars>>

\* a logged-in client whose socket is open and whose subscriptions have
\* mirrored user 1, alone or with the rows of the scenario
LifecycleInit ==
    /\ \E c \in {EmptyCache, ScenarioMirror} :
          cache = [c EXCEPT !["user"] =
                      insertRows(EmptyMap, "user", <<UserRow(1, "ab12")>>)]
    /\ categoriesLoaded = TRUE /\ registered = {}
    /\ identity = Str("ab12") /\ lastMsg = << >> /\ calls = << >> /\ handled = 0
    /\ socks = [i \in {1} |-> "open"] /\ ws = 1
    /\ reconnectAttempts = 0 /\ isReconnecting = FALSE
    /\ intentionalDisconnect = FALSE /\ reconnectTimeoutId = 0 /\ timers = {}
    /\ token = Str("tok") /\ storage = [identity |-> Str("ab12"), token |-> Str("tok")]
    /\ subscriptionCounter = 2
    /\ lastStep = Step("identity", << >>, << >>)
    /\ scheduled = 0 /\ userDisconnected = FALSE
    /\ DecodeIdle /\ GatewayIdle /\ ViewIdle /\ AsyncIdle

LifecycleNext ==
    \/ LeaveRoom
    \/ LogoutUser
    \/ Connect
    \/ Disconnect
    \/ Deliver
    \/ \E i \in DOMAIN socks : RecvIdentityToken(i)

SpecLifecycle == LifecycleInit /\ [][LifecycleNext]_vars

C29_LogoutAlwaysClears ==
    [][(rpc' # rpc /\ rpc'.name = "logout_user") =>
          /\ identity' = Null /\ token' = Null
          /\ storage' = [identity |-> Null, token |-> Null]
          /\ ws' = 0 /\ intentionalDisconnect']_vars

\* C27: callReducer replaces the identity, in memory and in localStorage, by
\* the identity header of the response when there is one, and likewise the
\* token, whether the call succeeds or fails; without the header the value
\* stays as it was
C27_HeadersRotate ==
    [][/\ identity' = (IF rpc'.response.newIdentity # Null
                       THEN rpc'.response.newIdentity ELSE identity)
       /\ storage'.identity = (IF rpc'.response.newIdentity # Null
                               THEN rpc'.response.newIdentity ELSE storage.identity)
       /\ token' = (IF rpc'.response.newToken # Null
                    THEN rpc'.response.newToken ELSE token)
       /\ storage'.token = (IF rpc'.response.newToken # Null
                            THEN rpc'.response.newToken ELSE storage.token)]_vars

\* a call the server refused, whose response named a new identity and no
\* token: the identity is the new one and the token the one an earlier
\* response had set
C27_Witness ==
    /\ rpc # << >>
    /\ ~rpc.response.failed /\ ~rpc.response.ok
    /\ rpc.result.value[2].ok = Bool(FALSE)
    /\ rpc.response.newIdentity = Str("cd34") /\ rpc.response.newToken = Null
    /\ identity = Str("cd34") /\ storage.identity = Str("cd34")
    /\ token = Str("tok2") /\ storage.token = Str("tok2")

\* C28: a call the server answers with a success status and an empty body
\* returns {ok: true, data: null}
C28_EmptyBodyIsNull ==
    (rpc # << >> /\ ~rpc.response.failed /\ rpc.response.ok
        /\ rpc.response.text = Str("")) =>
            rpc.result = [outcome |-> "returned",
                          value |-> Obj([ok |-> Bool(TRUE), data |-> Null])]

\* a call answered with a success status and an empty body has returned
C28_Witness ==
    /\ rpc # << >>
    /\ ~rpc.response.failed /\ rpc.response.ok /\ rpc.response.text = Str("")
    /\ rpc.result.outcome = "returned"
    /\ rpc.result.value[2].data = Null

\* the activity ids every member of the room has unlocked
commonUnlocked(c, room) ==
    LET members == {m \in Values(c["room_member"]) : Get(m, "roomId") = Num(room)}
    IN {a \in {Get(u, "activityId") : u \in Values(c["player_unlocked_activity"])} :
          /\ members # {}
          /\ \A m \in members :
                \E u \in Values(c["player_unlocked_activity"]) :
                   /\ Get(u, "playerId") = Get(m, "playerId")
                   /\ Get(u, "activityId") = a}

\* the name of a row of the table with this id, "Unknown" without the row
nameOrUnknown(c, tableName, field, id) ==
    IF id \in DOMAIN c[tableName] THEN Get(c[tableName][id], field) ELSE Str("Unknown")

\* every available activity carries the name of its category, or "Unknown"
\* when the category has no row
availableHaveCategory ==
    (view # << >> /\ view.query[1] = "getRoomAvailableActivities") =>
        \A e \in view.first[2] :
           Get(e, "category") = nameOrUnknown(cache, "category", "name",
                                              Get(e, "categoryId"))

\* every participant of the active room activity is listed, with the name of
\* its player, or "Unknown" when the player has no row
participantsListed ==
    (view # << >> /\ view.query[1] = "getRoomActivity" /\ view.first # Null) =>
        LET e == view.first[2]
        IN \A ap \in {x \in Values(cache["activity_participant"]) :
                        Get(x, "roomActivityId") = Get(e.ra, "id")} :
              \E k \in DOMAIN e.participants :
                 /\ e.participants[k].ap = ap
                 /\ e.participants[k].username =
                       nameOrUnknown(cache, "player", "username", Get(ap, "playerId"))

\* the roster the members observer receives, as a set
rosterOf(result) ==
    {result[2][1].arg[k] : k \in DOMAIN result[2][1].arg}

\* C25 as stated: a reference to a row that is not mirrored never drops the
\* entry: an unlocked activity without Activity row is still listed, a room
\* member without Player row is still in the roster, and a missing category or
\* player name reads "Unknown"
C25_PlaceholderNeverDrops ==
    /\ availableHaveCategory
    /\ participantsListed
    /\ (view # << >> /\ view.query[1] = "getRoomAvailableActivities") =>
          \A a \in commonUnlocked(cache, view.query[2]) :
             \E e \in view.first[2] : Get(e, "id") = a
    /\ (view # << >> /\ view.query[1] = "notifyRoomMembersUpdate") =>
          \A m \in Values(cache["room_member"]) :
             \E r \in rosterOf(view.first) : r.playerId = Get(m, "playerId")

\* C25: a missing Category row, and a missing Player row of a participant,
\* leave the entry in the view with "Unknown" as the name; an unlocked activity
\* without Activity row and a room member without Player row are left out of
\* the view, which holds the other entries
C25_PlaceholderOrOmitted ==
    /\ availableHaveCategory
    /\ participantsListed
    /\ (view # << >> /\ view.query[1] = "getRoomAvailableActivities") =>
          {Get(e, "id") : e \in view.first[2]} =
             {a \in commonUnlocked(cache, view.query[2]) : a \in DOMAIN cache["activity"]}
    /\ (view # << >> /\ view.query[1] = "notifyRoomMembersUpdate") =>
          {r.playerId : r \in rosterOf(view.first)} =
             {Get(m, "playerId") : m \in {x \in Values(cache["room_member"]) :
                                            Get(x, "playerId") \in DOMAIN cache["player"]}}

\* the only member of room 1 has activities 1 and 2 unlocked; activity 1 is
\* mirrored without its category and activity 2 is not mirrored: the view
\* holds activity 1 alone, of category "Unknown"
C25_Witness ==
    /\ view # << >> /\ view.query = <<"getRoomAvailableActivities", 1>>
    /\ commonUnlocked(cache, 1) = {Num(1), Num(2)}
    /\ DOMAIN cache["activity"] = {Num(1)} /\ DOMAIN cache["category"] = {}
    /\ \E e \in view.first[2] :
          /\ view.first[2] = {e}
          /\ Get(e, "id") = Num(1) /\ Get(e, "category") = Str("Unknown")

\* the kinds of message that carry table updates
MessageKinds == {"InitialSubscription", "SubscriptionUpdate", "TransactionUpdate"}

\* C26: the table updates of a message leave the same stores whether they come
\* as an InitialSubscription, as a SubscriptionUpdate or as a committed
\* TransactionUpdate
C26_KindsApplyAlike ==
    [][\A k \in MessageKinds :
          cache' = handleTables([cache |-> cache, loaded |-> categoriesLoaded,
                                 calls |-> << >>],
                                {}, identity, [lastMsg' EXCEPT !.kind = k]).cache]_vars

\* an InitialSubscription of two table updates, none of them of the members,
\* was applied to a mirror that held a room member, who is still there
C26_Witness ==
    /\ lastMsg # << >> /\ lastMsg.kind = "InitialSubscription"
    /\ Len(lastMsg.tables) = 2
    /\ \A i \in 1..2 : lastMsg.tables[i].table_name # "room_member"
    /\ lastMsg.tables[1].table_name # lastMsg.tables[2].table_name
    /\ DOMAIN cache["room_member"] # {}

\* the room activities of the room that are being viewed or in progress
activeOf(c, room) ==
    {ra \in Values(c["room_activity"]) :
        /\ Get(ra, "roomId") = Num(room)
        /\ Get(ra, "status") \in {Str("Viewing"), Str("InProgress")}}

\* C30: getRoomActivity(roomId) returns null when the room has no room
\* activity that is being viewed or in progress, and else such a room activity
\* of the room with its activity, the name of its category and the
\* participants whose roomActivityId is its id
C30_RoomActivityIsActiveOfRoom ==
    (view # << >> /\ view.query[1] = "getRoomActivity") =>
        IF activeOf(cache, view.query[2]) = {} THEN view.first = Null
        ELSE /\ view.first # Null
             /\ LET e == view.first[2]
                IN /\ e.ra \in activeOf(cache, view.query[2])
                   /\ e.activity = MapGet(cache["activity"], Get(e.ra, "activityId"))
                   /\ e.categoryName =
                         (IF Get(e.ra, "activityId") \in DOMAIN cache["activity"]
                          THEN nameOrUnknown(cache, "category", "name",
                                   Get(cache["activity"][Get(e.ra, "activityId")],
                                       "categoryId"))
                          ELSE Str("Unknown"))
                   /\ {e.participants[k].ap : k \in DOMAIN e.participants} =
                         {ap \in Values(cache["activity_participant"]) :
                             Get(ap, "roomActivityId") = Get(e.ra, "id")}

\* room 1 has a room activity being viewed, with two participants, and a
\* completed one: the one being viewed is returned with both participants
C30_Witness ==
    /\ view # << >> /\ view.query = <<"getRoomActivity", 1>>
    /\ {Get(ra, "status") : ra \in Values(cache["room_activity"])}
          = {Str("Viewing"), Str("Completed")}
    /\ view.first # Null
    /\ Get(view.first[2].ra, "id") = Num(1)
    /\ Cardinality(DOMAIN view.first[2].participants) = 2

-----------------------------------------------------------------------------
(* Sockets and timers of the connection manager.                           *)

\* the sockets the client has created that are open or connecting
liveSockets == {i \in DOMAIN socks : socks[i] \in {"open", "connecting"}}

\* C32: at any time at most one socket the client has created is open or
\* connecting
C32_OneLiveSocket == Cardinality(liveSockets) <= 1

\* C35: at most one reconnect timer is pending at any time
C35_OneTimerPending == Cardinality(timers) <= 1

\* the client has created two sockets; the current one has just closed while
\* the other is still connecting, and one reconnect timer is pending
C35_Witness ==
    /\ Cardinality(timers) = 1
    /\ lastStep.op = "close"
    /\ Cardinality(liveSockets) = 1 /\ Cardinality(DOMAIN socks) = 2
    /\ isReconnecting

-----------------------------------------------------------------------------
(* The mirror across connections: a client that connects, receives the     *)
(* snapshot of the categories and their updates, loses its socket,         *)
(* reconnects, and logs out.                                               *)

MaxSyncMessages == 2

MaxSyncLosses == 1

CategoryIds2 == {1, 2}

\* the table update of the categories with these rows inserted and deleted
CategoryUpdate(ins, del) ==
    [table_name |-> "category",
     inserts |-> [i \in 1..Len(ins) |-> CategoryRow(ins[i], "positional")],
     deletes |-> [i \in 1..Len(del) |-> CategoryRow(del[i], "positional")],
     updates |-> << >>]

\* the snapshots a server answers the first subscription with: the
\* categories it holds at that time
Snapshots ==
    {Message("InitialSubscription", <<CategoryUpdate(SetToSeq(S), << >>)>>) :
        S \in SUBSET CategoryIds2}

\* the transaction updates of the categories: one row appears or goes, in a
\* transaction that was committed or was not
Transactions ==
    {[kind |-> "TransactionUpdate", tables |-> <<u>>, committed |-> b] :
        u \in {CategoryUpdate(<<1>>, << >>), CategoryUpdate(<<2>>, << >>),
               CategoryUpdate(<< >>, <<1>>)},
        b \in BOOLEAN}

\* ws.onmessage of the current socket, just opened: the snapshot of the
\* first subscription
Snapshot ==
    /\ isConnected /\ lastStep.op = "open"
    /\ handled < MaxSyncMessages
    /\ \E msg \in Snapshots : HandleMessage(msg)
    /\ lastStep' = Step("message", << >>, << >>)
    /\ UNCHANGED <<socks, ws, reconnectAttempts, isReconnecting,
                   intentionalDisconnect, reconnectTimeoutId, timers, token,
                   storage, subscriptionCounter, scheduled, userDisconnected>>
    /\ UNCHANGED <<decodeVars, gatewayVars, viewVars, asyncVars>>

\* ws.onmessage of the current socket, after the snapshot: a transaction update
Transaction ==
    /\ isConnected /\ lastStep.op = "message"
    /\ handled < MaxSyncMessages
    /\ \E msg \in Transactions : HandleMessage(msg)
    /\ UNCHANGED <<decodeVars, connVars, gatewayVars, viewVars, asyncVars>>

\* getAllCategories(), once its wait for the categories is over: the flag is
\* raised when the store is not empty, and no observer is called
GetAllCategories ==
    /\ categoriesLoaded' = (categoriesLoaded \/ DOMAIN cache["category"] # {})
    /\ UNCHANGED <<cache, registered, identity, lastMsg, calls, handled>>
    /\ UNCHANGED <<decodeVars, connVars, gatewayVars, viewVars, asyncVars>>

\* the response of a server that accepts the call and rotates nothing
Accepted ==
    [failed |-> FALSE, ok |-> TRUE, text |-> Str(""),
     newIdentity |-> Null, newToken |-> Null]

\* a client just constructed, its observers set, on which connect() was called
SyncInit ==
    /\ cache = EmptyCache /\ categoriesLoaded = FALSE
    /\ registered \in {Observers, Observers \ {"onCategoriesLoaded"}}
    /\ identity = Str("ab12") /\ lastMsg = << >> /\ calls = << >> /\ handled = 0
    /\ socks = [i \in {1} |-> "connecting"] /\ ws = 1
    /\ reconnectAttempts = 0 /\ isReconnecting = FALSE
    /\ intentionalDisconnect = FALSE /\ reconnectTimeoutId = 0 /\ timers = {}
    /\ token = Str("tok") /\ storage = [identity |-> Str("ab12"), token |-> Str("tok")]
    /\ subscriptionCounter = 0
    /\ lastStep = Step("connect", << >>, << >>)
    /\ scheduled = 0 /\ userDisconnected = FALSE
    /\ DecodeIdle /\ GatewayIdle /\ ViewIdle /\ AsyncIdle

\* the connection is lost MaxSyncLosses times in a row at most, a reconnection
\* fails at most once more, and the application calls connect() when the
\* client has no socket
SyncNext ==
    \/ \E i \in DOMAIN socks : SocketOpen(i)
    \/ \E i \in DOMAIN socks : reconnectAttempts < MaxSyncLosses /\ SocketClose(i)
    \/ \E t \in timers : reconnectAttempts <= MaxSyncLosses /\ TimerFire(t)
    \/ ws = 0 /\ Connect
    \/ Snapshot
    \/ Transaction
    \/ GetAllCategories
    \/ logoutUser(Accepted)

SpecSync == SyncInit /\ [][SyncNext]_vars

\* the onCategoriesLoaded calls of a sequence of calls
categoriesLoadedCalls(cs) == {i \in DOMAIN cs : cs[i].obs = "onCategoriesLoaded"}

\* C33: when an InitialSubscription has been applied, the store of each table
\* it names holds exactly the rows of the snapshot
C33_SnapshotReplacesStores ==
    [][(handled' = handled + 1 /\ lastMsg'.kind = "InitialSubscription")
        => \A i \in DOMAIN lastMsg'.tables :
              DOMAIN cache'[lastMsg'.tables[i].table_name]
                 = decodedIds(lastMsg'.tables[i].table_name,
                              lastMsg'.tables[i].inserts)]_vars

\* C37: a TransactionUpdate that was not committed leaves the stores and the
\* loaded flag as they were and calls no observer
C37_UncommittedIsIgnored ==
    [][(handled' = handled + 1 /\ lastMsg'.kind = "TransactionUpdate"
          /\ ~lastMsg'.committed)
        => cache' = cache /\ calls' = << >>
              /\ categoriesLoaded' = categoriesLoaded]_vars

\* a transaction update that was not committed and inserts category 1 was
\* handled by a client that observes the categories and mirrors none
C37_Witness ==
    /\ handled > 0 /\ lastMsg.kind = "TransactionUpdate" /\ ~lastMsg.committed
    /\ lastMsg.tables[1].inserts # << >>
    /\ "onCategoriesLoaded" \in registered /\ ~categoriesLoaded
    /\ DOMAIN cache["category"] = {} /\ calls = << >>

\* C39: a message calls onCategoriesLoaded at most once, only while the flag
\* is down, and with the call the flag goes up and the store of the
\* categories is not empty; the first category update that leaves the store
\* non-empty makes the call when the observer is set; the flag never goes down
C39_CategoriesLoadedOnce ==
    [][/\ categoriesLoaded => categoriesLoaded'
       /\ handled' = handled + 1 =>
             /\ Cardinality(categoriesLoadedCalls(calls')) <= 1
             /\ categoriesLoadedCalls(calls') # {} =>
                   /\ ~categoriesLoaded /\ categoriesLoaded'
                   /\ DOMAIN cache'["category"] # {}
             /\ (/\ ~categoriesLoaded /\ DOMAIN cache'["category"] # {}
                 /\ "onCategoriesLoaded" \in registered)
                   => categoriesLoadedCalls(calls') # {}]_vars

\* the client was told of its categories, logged out, connected again and
\* applied a snapshot that filled the emptied store: it was not told again
C39_Witness ==
    /\ categoriesLoaded /\ "onCategoriesLoaded" \in registered
    /\ handled = 2 /\ lastMsg.kind = "InitialSubscription"
    /\ DOMAIN cache["category"] # {}
    /\ categoriesLoadedCalls(calls) = {}
    /\ identity = Null

\* C38: the identity and the token in memory are the ones in localStorage
C38_MemoryMatchesStorage ==
    identity = storage.identity /\ token = storage.token

\* a reducer call had rotated the identity and the token, and a handshake
\* has set both again, in memory and in localStorage
C38_Witness ==
    /\ rpc # << >> /\ rpc.name = "leave_room"
    /\ rpc.response.newIdentity = Str("cd34") /\ rpc.response.newToken = Str("tok2")
    /\ lastStep.op = "identity"
    /\ identity = Str("ab12") /\ storage.identity = Str("ab12")
    /\ token = Str("tok") /\ storage.token = Str("tok")

-----------------------------------------------------------------------------
(* The polling waits: waitForCache, waitForConnection, and joinRoom, which *)
(* waits for its membership row. Time is counted in milliseconds from the  *)
(* start of the wait.                                                      *)

\* the default timeoutMs and intervalMs of waitForCache, the interval
\* waitForConnection sleeps, and its timeout as getAllCategories passes it
cacheTimeoutMs == 2000
cacheIntervalMs == 50
connectionIntervalMs == 100
connectionTimeoutMs == 5000

\* by how many milliseconds a timer fires late
Lateness == {0, 50}

\* a predicate given to waitForCache: item => item[field] === value
Predicate(field, value) == [field |-> field, value |-> value]

\* a wait that has not met its first await: op is the function called
Waiting(op, cacheKey, predicate, timeoutMs, intervalMs, args) ==
    [op |-> op, pc |-> "start", cacheKey |-> cacheKey, predicate |-> predicate,
     timeoutMs |-> timeoutMs, intervalMs |-> intervalMs, args |-> args,
     elapsed |-> 0, found |-> Undef, result |-> Undef]

\* "cache && cache.size > 0" and the loop over cache.values() of waitForCache
cacheMatches(c, cacheKey, predicate) ==
    /\ cacheKey \in DOMAIN c
    /\ \E item \in Values(c[cacheKey]) : Get(item, predicate.field) = predicate.value

\* getRoomFromCacheByCode(roomCode): the first room of that code, or null
getRoomFromCacheByCode(c, roomCode) ==
    LET found == {room \in Values(c["room"]) : Get(room, "code") = roomCode}
    IN IF found = {} THEN Null ELSE CHOOSE room \in found : TRUE

\* getRoomMembersFromCache(roomId), as the set of the entries of the list
getRoomMembersFromCache(c, roomId) ==
    {Obj([playerId |-> Get(member, "playerId"),
          username |-> OrElse(Get(MapGet(c["player"], Get(member, "playerId")),
                                  "username"), Str("Unknown")),
          role |-> parseRole(Get(member, "role")),
          roomId |-> Get(member, "roomId")]) :
       member \in {m \in Values(c["room_member"]) : Get(m, "roomId") = roomId}}

\* what joinRoom returns once its wait is over: { ok: true, room, members }
joinRoom(c, roomCode) ==
    LET room == getRoomFromCacheByCode(c, roomCode)
    IN Obj([ok |-> Bool(TRUE), room |-> room,
            members |-> <<"list", IF Truthy(room)
                                  THEN getRoomMembersFromCache(c, Get(room, "id"))
                                  ELSE {}>>])

\* the wait returns found, and with it the function that awaited it
returned(w, c, found) ==
    [w EXCEPT !.pc = "done", !.found = Bool(found),
              !.result = IF w.op = "joinRoom" THEN joinRoom(c, w.args.roomCode)
                         ELSE Bool(found)]

\* the loop of waitForCache and of waitForConnection from its head to the
\* next await or return: connected is isConnected()
loopHead(w, c, connected) ==
    IF ~(w.elapsed < w.timeoutMs) THEN returned(w, c, FALSE)
    ELSE IF (IF w.op = "waitForConnection" THEN connected
             ELSE cacheMatches(c, w.cacheKey, w.predicate))
    THEN returned(w, c, TRUE)
    ELSE [w EXCEPT !.pc = "sleep"]

\* mutant of slept: no time passes during a sleep
slept_NoTime(w, late) == w.elapsed

\* Date.now() - startTime when the timer of the sleep has fired
slept(w, late) == w.elapsed + w.intervalMs + late

\* the timeouts and the intervals the waits are called with
CacheTimeouts == {0, 120, cacheTimeoutMs}
CacheIntervals == {cacheIntervalMs, 100}
ConnectionTimeouts == {0, 250, connectionTimeoutMs}
CacheKeys == {"room_member", "no_such_table"}
Predicates == {Predicate("playerId", Num(1)), Predicate("playerId", Num(7))}

NoArgs == [playerId |-> Null, roomCode |-> Null]

\* waitForCache(cacheKey, predicate, timeoutMs, intervalMs) called by the
\* application, up to its first await or return
WaitForCache ==
    /\ wait = << >> /\ rpc = << >>
    /\ \E cacheKey \in CacheKeys, predicate \in Predicates,
          timeoutMs \in CacheTimeouts, intervalMs \in CacheIntervals :
          wait' = loopHead(Waiting("waitForCache", cacheKey, predicate,
                                   timeoutMs, intervalMs, NoArgs),
                           cache, isConnected)
    /\ UNCHANGED pending
    /\ UNCHANGED mirrorVars
    /\ UNCHANGED <<decodeVars, connVars, gatewayVars, viewVars>>

\* waitForConnection(timeoutMs) called by the application, up to its first
\* await or return: it returns true at once when the client is connected
WaitForConnection ==
    /\ wait = << >> /\ rpc = << >>
    /\ \E timeoutMs \in ConnectionTimeouts :
        \E w \in {Waiting("waitForConnection", "", Predicate("", Null),
                          timeoutMs, connectionIntervalMs, NoArgs)} :
          wait' = IF isConnected THEN returned(w, cache, TRUE)
                  ELSE loopHead(w, cache, isConnected)
    /\ UNCHANGED pending
    /\ UNCHANGED mirrorVars
    /\ UNCHANGED <<decodeVars, connVars, gatewayVars, viewVars>>

\* the timer of the sleep fires: the loop goes on from its head
Wake ==
    /\ wait # << >> /\ wait.pc = "sleep"
    /\ \E late \in Lateness :
          wait' = loopHead([wait EXCEPT !.elapsed = slept(wait, late)],
                           cache, isConnected)
    /\ UNCHANGED pending
    /\ UNCHANGED mirrorVars
    /\ UNCHANGED <<decodeVars, connVars, gatewayVars, viewVars>>

\* the room codes of the rooms 1 and 2
RoomCode(room) == IF room = 1 THEN Str("AAAA") ELSE Str("BBBB")

RoomRow(room) ==
    Encode("room", RowValues("room", [id |-> Num(room), code |-> RoomCode(room)]),
           "keyed")

\* what the server answers to join_room: it accepts, it refuses, or the
\* request fails
JoinResponses ==
    {Accepted,
     [Accepted EXCEPT !.ok = FALSE, !.text = Str("no such room")],
     [Accepted EXCEPT !.failed = TRUE, !.ok = FALSE]}

\* joinRoom(1, "AAAA", "Player") up to the return of callReducer
JoinRoomCall ==
    /\ wait = << >> /\ rpc = << >>
    /\ \E response \in JoinResponses :
          callReducer("join_room",
                      Arr(<<Num(1), RoomCode(1),
                            Obj([k \in {"Player"} |-> EmptyObj])>>),
                      response)

\* joinRoom after callReducer has returned: the result is returned when it is
\* not ok, and waitForCache is called when it is
JoinRoomWait ==
    /\ wait = << >> /\ rpc # << >>
    /\ rpc.name = "join_room" /\ rpc.result.outcome = "returned"
    /\ \E w \in {Waiting("joinRoom", "room_member", Predicate("playerId", Num(1)),
                         cacheTimeoutMs, cacheIntervalMs,
                         [playerId |-> Num(1), roomCode |-> RoomCode(1)])} :
          wait' = IF Get(rpc.result.value, "ok") = Bool(TRUE)
                  THEN loopHead(w, cache, isConnected)
                  ELSE [w EXCEPT !.pc = "done", !.result = rpc.result.value]
    /\ UNCHANGED pending
    /\ UNCHANGED mirrorVars
    /\ UNCHANGED <<decodeVars, connVars, gatewayVars, viewVars>>

MaxDeltas == 1

\* ws.onmessage of the open socket with the delta of join_room: player 1 is
\* a member of room 1
MemberDelta ==
    /\ isConnected /\ handled < MaxDeltas
    /\ HandleMessage(Message("TransactionUpdate",
                             <<InsertOf("room_member", MemberRow(1, 1, "positional"))>>))
    /\ UNCHANGED <<decodeVars, connVars, gatewayVars, viewVars, asyncVars>>

\* a logged-in client whose socket is connecting or open, with the rooms 1
\* and 2 and the player 1 mirrored and, of the members, nobody, player 1 in
\* room 2, or player 2 in room 1
WaitInit ==
    /\ \E members \in {{}, {<<2, 1>>}, {<<1, 2>>}} :
          cache = [Mirror(members, {1}, {}, {}, {}, {}, {}) EXCEPT
                      !["room"] = insertRows(EmptyMap, "room",
                                             <<RoomRow(1), RoomRow(2)>>)]
    /\ categoriesLoaded = FALSE /\ registered = {}
    /\ identity = Str("ab12") /\ lastMsg = << >> /\ calls = << >> /\ handled = 0
    /\ \E state \in {"connecting", "open"} : socks = [i \in {1} |-> state]
    /\ ws = 1
    /\ reconnectAttempts = 0 /\ isReconnecting = FALSE
    /\ intentionalDisconnect = FALSE /\ reconnectTimeoutId = 0 /\ timers = {}
    /\ token = Str("tok") /\ storage = [identity |-> Str("ab12"), token |-> Str("tok")]
    /\ subscriptionCounter = 0
    /\ lastStep = Step("connect", << >>, << >>)
    /\ scheduled = 0 /\ userDisconnected = FALSE
    /\ DecodeIdle /\ GatewayIdle /\ ViewIdle /\ AsyncIdle

WaitNext ==
    \/ WaitForCache
    \/ WaitForConnection
    \/ JoinRoomCall
    \/ JoinRoomWait
    \/ Wake
    \/ MemberDelta
    \/ \E i \in DOMAIN socks : SocketOpen(i)

SpecWait == WaitInit /\ [][WaitNext]_vars

\* the timers of the sleeps fire
SpecWaitFair == SpecWait /\ WF_vars(Wake)

\* the wait returns in this step
waitReturns == wait' # << >> /\ wait'.pc = "done" /\ wait' # wait

\* C31: a wait that was started returns; it returns true only when, at the
\* poll it returns from, a row of the table satisfies the predicate (the
\* client is connected, for waitForConnection); it returns false only once the
\* timeout has elapsed; and it sleeps on only while no row satisfies the
\* predicate and the timeout has not elapsed
C31_WaitsReturn ==
    /\ [][/\ (waitReturns /\ wait'.found = Bool(TRUE)) =>
               IF wait'.op = "waitForConnection" THEN isConnected
               ELSE /\ cacheMatches(cache, wait'.cacheKey, wait'.predicate)
                    /\ wait'.elapsed < wait'.timeoutMs
          /\ (waitReturns /\ wait'.found = Bool(FALSE)) =>
               wait'.elapsed >= wait'.timeoutMs
          /\ (wait' # << >> /\ wait'.pc = "sleep" /\ wait' # wait) =>
               /\ wait'.elapsed < wait'.timeoutMs
               /\ IF wait'.op = "waitForConnection" THEN ~isConnected
                  ELSE ~cacheMatches(cache, wait'.cacheKey, wait'.predicate)]_vars
    /\ [](wait # << >> => <>(wait # << >> /\ wait.pc = "done"))

\* waitForCache has polled the members for player 7 every 50 ms, the delta of
\* player 1 has arrived meanwhile, and it has returned false after 2000 ms
C31_Witness ==
    /\ wait # << >> /\ wait.op = "waitForCache" /\ wait.pc = "done"
    /\ wait.cacheKey = "room_member" /\ wait.predicate.value = Num(7)
    /\ wait.timeoutMs = cacheTimeoutMs /\ wait.intervalMs = cacheIntervalMs
    /\ wait.found = Bool(FALSE) /\ wait.elapsed >= cacheTimeoutMs
    /\ handled = 1

\* the entries of a members list that are of the player
listed(result, playerId) ==
    {m \in Get(result, "members")[2] : Get(m, "playerId") = playerId}

\* C36: when joinRoom has returned ok less than 2000 ms after it began to
\* wait, and the mirror holds the membership of the player in the room of
\* the code, the members it returned contain the player
C36_JoinedPlayerIsListed ==
    (/\ wait # << >> /\ wait.op = "joinRoom" /\ wait.pc = "done"
     /\ Get(wait.result, "ok") = Bool(TRUE)
     /\ wait.elapsed < cacheTimeoutMs
     /\ \E m \in Values(cache["room_member"]) :
           /\ Get(m, "playerId") = wait.args.playerId
           /\ Get(m, "roomId") = Get(getRoomFromCacheByCode(cache, wait.args.roomCode), "id"))
    => listed(wait.result, wait.args.playerId) # {}

-----------------------------------------------------------------------------
(* Reducer calls in flight: between the fetch of callReducer and its       *)
(* response the client handles other events, other calls and their         *)
(* responses among them.                                                   *)

MaxPending == 2

\* the call callReducer(reducerName, args) has sent, with the token and the
\* identity its headers were made of
Request(reducerName, args) ==
    [name |-> reducerName, args |-> args, token |-> token, identity |-> identity]

\* what the server answers: it accepts, it accepts and rotates the identity
\* and the token, or the request fails
LateResponses ==
    {Accepted,
     [Accepted EXCEPT !.newIdentity = Str("cd34"), !.newToken = Str("tok2")],
     [Accepted EXCEPT !.failed = TRUE, !.ok = FALSE]}

\* a reducer wrapper called by a logged-in application, up to the fetch of
\* callReducer
IssueCall ==
    /\ Truthy(token) /\ Cardinality(pending) < MaxPending
    /\ \E reducerName \in {"leave_room", "join_room"} :
          pending' = pending \cup {Request(reducerName, Arr(<<Num(1), Num(1)>>))}
    /\ UNCHANGED wait
    /\ UNCHANGED mirrorVars
    /\ UNCHANGED <<decodeVars, connVars, gatewayVars, viewVars>>

\* logoutUser() called by the application, up to the fetch of callReducer
IssueLogout ==
    /\ Cardinality(pending) < MaxPending
    /\ pending' = pending \cup {Request("logout_user", EmptyArr)}
    /\ UNCHANGED wait
    /\ UNCHANGED mirrorVars
    /\ UNCHANGED <<decodeVars, connVars, gatewayVars, viewVars>>

\* callReducer from the response of the call p on, for a wrapper that returns
\* what callReducer returns
Respond(p) ==
    /\ p \in pending /\ p.name # "logout_user"
    /\ pending' = pending \ {p}
    /\ \E response \in LateResponses :
          /\ rpc' = reducerCall(p.name, p.args, response, p.token, p.identity)
          /\ identity' = rotated(identity, response.newIdentity)
          /\ token' = rotated(token, response.newToken)
          /\ storage' = [identity |-> rotated(storage.identity, response.newIdentity),
                         token |-> rotated(storage.token, response.newToken)]
    /\ UNCHANGED <<cache, categoriesLoaded, registered, lastMsg, calls, handled>>
    /\ UNCHANGED <<socks, ws, reconnectAttempts, isReconnecting,
                   intentionalDisconnect, reconnectTimeoutId, timers,
                   subscriptionCounter, lastStep, scheduled, userDisconnected>>
    /\ UNCHANGED <<decodeVars, viewVars, wait>>

\* logoutUser from the response of its call p on
RespondLogout(p) ==
    /\ p \in pending /\ p.name = "logout_user"
    /\ pending' = pending \ {p}
    /\ \E response \in LateResponses :
        \E call \in {reducerCall(p.name, p.args, response, p.token, p.identity)} :
          /\ rpc' = call
          /\ IF call.result.outcome = "thrown"
             THEN /\ identity' = rotated(identity, response.newIdentity)
                  /\ token' = rotated(token, response.newToken)
                  /\ storage' = [identity |-> rotated(storage.identity,
                                                      response.newIdentity),
                                 token |-> rotated(storage.token, response.newToken)]
                  /\ UNCHANGED <<cache, socks, ws, reconnectAttempts, isReconnecting,
                                 intentionalDisconnect, reconnectTimeoutId, timers,
                                 lastStep, scheduled, userDisconnected>>
             ELSE /\ identity' = Null
                  /\ token' = Null
                  /\ storage' = [identity |-> Null, token |-> Null]
                  /\ cache' = logoutStores(cache)
                  /\ disconnectBody
                  /\ lastStep' = Step("logout", notify("onDisconnect"), << >>)
    /\ UNCHANGED <<categoriesLoaded, registered, lastMsg, calls, handled>>
    /\ UNCHANGED subscriptionCounter
    /\ UNCHANGED <<decodeVars, viewVars, wait>>

\* a logged-in, connected client calls reducers and logs out; it connects
\* again when it has no socket
AsyncNext ==
    \/ IssueCall
    \/ IssueLogout
    \/ \E p \in pending : Respond(p)
    \/ \E p \in pending : RespondLogout(p)
    \/ ws = 0 /\ Connect
    \/ \E i \in DOMAIN socks : SocketOpen(i)
    \/ \E i \in DOMAIN socks : RecvIdentityToken(i)

SpecAsync == LifecycleInit /\ [][AsyncNext]_vars

\* C34: while the last step of the connection is the logout, the identity and
\* the token are absent from memory and from localStorage; without a token
\* the application calls no reducer but logout_user, which ends with both
\* absent, so that any other response handled then is of a call issued
\* before the logout
C34_LogoutStays ==
    lastStep.op = "logout" =>
       /\ identity = Null /\ token = Null
       /\ storage = [identity |-> Null, token |-> Null]

====
